---- MODULE Spec2Model ----
(***************************************************************************)
(* A model of the peer-to-peer overlay of EcoBloom: the Router (peer graph *)
(* and BFS next-hop table), the MessageStore (offline queue with expiry),  *)
(* and the Peer node (handshake, gossip, forwarding, disconnect handling). *)
(*                                                                         *)
(* The specifications share the helper operators:                          *)
(*   SpecRouter  : one Router object driven through its methods;           *)
(*   SpecStore   : one MessageStore object driven through its methods;     *)
(*   Spec        : a network of Peer nodes exchanging messages over links, *)
(*                 with SpecAlert, SpecBroadcast, SpecChain, SpecClose,    *)
(*                 SpecPressure, SpecDiscover, SpecSelf, SpecBlock and     *)
(*                 SpecParallel for other uses of the same network, and    *)
(*                 SpecQuiesce for SpecDiscover with running event loops;  *)
(*   SpecCodec   : Message.to_json and Message.from_json;                  *)
(*   SpecFraming : the inbound buffer of one PeerConnection;               *)
(*   SpecBuffer  : the outbound buffer of one PeerConnection and the two   *)
(*                 threads that use it.                                    *)
(***************************************************************************)
EXTENDS Integers, Sequences, FiniteSets, TLC

\* Python's None.
None == "None"

(***************************************************************************)
(* Bounds of the model.                                                    *)
(***************************************************************************)
\* Largest number of undirected edges in a received peer_graph snapshot.
MaxRecvEdges == 1
\* Message ids a caller hands to the stand-alone MessageStore.
MaxStoreIds == 2
\* Clock advances in a run of the stand-alone MessageStore.
MaxStoreTicks == 3
MaxMsgIds == 1
MaxSends == 1
MaxAlertSends == 2
MaxBroadcasts == 1
MaxExits == 1
MaxNetTicks == 1
MaxChainLen == 12
MaxChainSends == 1
\* Longest path, number of time stamps and of message ids of the Messages
\* given to the codec.
MaxCodecPath == 2
MaxCodecClock == 1
MaxCodecIds == 1
\* Number of texts of a stream and number of bytes of a text.
MaxFrameRecords == 2
MaxTextBytes == 2
\* The bytes of a JSON text besides the text of the user, and the bytes of
\* the text of a short message.
TextOverhead == 200
SmallContent == 5
\* The submissions to a connection under pressure.
MaxPressureSends == 2
\* The peers of the line in which peers discover each other.
MaxLineLen == 4
\* The outbound buffer of SpecBuffer holds BufferBlocks blocks of bytes, and
\* queue_message is called MaxQueueCalls times.
BufferBlocks == 2
MaxQueueCalls == 3
\* The clock of the first state, in seconds since the epoch: time.time() is
\* never 0 on a running system.
StartTime == 1

\* The peer ids the stand-alone Router knows about.
PeerId == {"A", "B", "C", "D"}

\* All orders in which a Python set of peer ids can be iterated: the order
\* of a set of strings depends on the process's hash seed.
Perms(S) == {f \in [1..Cardinality(S) -> S] : \A i, j \in 1..Cardinality(S) : i # j => f[i] # f[j]}

\* `for x in s` under iteration order `order`.
Ordered(S, order) == SelectSeq(order, LAMBDA x : x \in S)

(***************************************************************************)
(* Router (router.py).  A peer_graph is a function from a set of peer ids  *)
(* to sets of peer ids; a routing_graph is a function destination -> hop.  *)
(***************************************************************************)
EmptyMap == [x \in {} |-> None]

Restrict(f, S) == [x \in S |-> f[x]]

\* dict.get(key, default)
Get(f, k, default) == IF k \in DOMAIN f THEN f[k] ELSE default

\* The `while frontier` loop of BFS_path_finding; <<>> stands for None.
RECURSIVE BFS_loop(_, _, _, _, _)
BFS_loop(graph, target, frontier, explored, order) ==
    IF frontier = <<>> THEN <<>>
    ELSE LET cur  == Head(frontier)[1]
             path == Head(frontier)[2]
         IN  IF cur \in explored
             THEN BFS_loop(graph, target, Tail(frontier), explored, order)
             ELSE IF cur = target THEN path
             ELSE LET explored2 == explored \cup {cur}
                      new == Ordered(Get(graph, cur, {}) \ explored2, order)
                      add == [i \in 1..Len(new) |-> <<new[i], Append(path, new[i])>>]
                  IN  BFS_loop(graph, target, Tail(frontier) \o add, explored2, order)

\* The same loop with a LIFO frontier (frontier.pop() for popleft()).
RECURSIVE DFS_loop(_, _, _, _, _)
DFS_loop(graph, target, frontier, explored, order) ==
    IF frontier = <<>> THEN <<>>
    ELSE LET last == frontier[Len(frontier)]
             rest == SubSeq(frontier, 1, Len(frontier) - 1)
             cur  == last[1]
             path == last[2]
         IN  IF cur \in explored
             THEN DFS_loop(graph, target, rest, explored, order)
             ELSE IF cur = target THEN path
             ELSE LET explored2 == explored \cup {cur}
                      new == Ordered(Get(graph, cur, {}) \ explored2, order)
                      add == [i \in 1..Len(new) |-> <<new[i], Append(path, new[i])>>]
                  IN  DFS_loop(graph, target, rest \o add, explored2, order)

BFS_path_finding_lifo(self, graph, target, order) ==
    IF target = self THEN <<self>>
    ELSE IF target \notin DOMAIN graph THEN <<>>
    ELSE DFS_loop(graph, target, <<<<self, <<self>>>>>>, {}, order)

BFS_path_finding(self, graph, target, order) ==
    IF target = self THEN <<self>>
    ELSE IF target \notin DOMAIN graph THEN <<>>
    ELSE BFS_loop(graph, target, <<<<self, <<self>>>>>>, {}, order)

\* path.index(current_node), then the element after it; None when there is none.
get_next_hop(current_node, path) ==
    LET idx == {i \in 1..Len(path) : path[i] = current_node}
    IN  IF idx = {} THEN None
        ELSE LET index == CHOOSE i \in idx : \A j \in idx : i <= j
             IN  IF index + 1 > Len(path) THEN None ELSE path[index + 1]

update_routing_graph(self, graph, known_peers, order) ==
    LET path(t) == BFS_path_finding(self, graph, t, order)
        dom == {t \in known_peers \ {self} :
                    path(t) # <<>> /\ get_next_hop(self, path(t)) # None}
    IN  [t \in dom |-> get_next_hop(self, path(t))]

update_peer_graph(self, graph, other_peer_id) ==
    LET keys == DOMAIN graph \cup {self, other_peer_id}
    IN  [k \in keys |->
            Get(graph, k, {})
              \cup (IF k = self THEN {other_peer_id} ELSE {})
              \cup (IF k = other_peer_id THEN {self} ELSE {})]

\* remove_peer without its last loop: the other peers' adjacency sets keep x.
remove_peer_keep_adjacency(graph, routing, other_peer_id) ==
    [peer_graph    |-> Restrict(graph, DOMAIN graph \ {other_peer_id}),
     routing_graph |-> Restrict(routing, {d \in DOMAIN routing :
                                  d # other_peer_id /\ routing[d] # other_peer_id})]

remove_peer(graph, routing, other_peer_id) ==
    LET keys == DOMAIN graph \ {other_peer_id}
    IN  [peer_graph    |-> [k \in keys |-> graph[k] \ {other_peer_id}],
         routing_graph |-> Restrict(routing, {d \in DOMAIN routing :
                                      d # other_peer_id /\ routing[d] # other_peer_id})]

\* The merge loop of handle_network_structure_message: every key and every
\* neighbour of the received graph becomes a key, every edge is added both ways.
MergeGraph(graph, received) ==
    LET mentioned == DOMAIN received \cup UNION {received[k] : k \in DOMAIN received}
        keys == DOMAIN graph \cup mentioned
    IN  [k \in keys |->
            Get(graph, k, {})
              \cup Get(received, k, {})
              \cup {p \in DOMAIN received : k \in received[p]}]

(***************************************************************************)
(* Message (message.py).  data is the {"content": text} of a MESSAGE, the  *)
(* known_peers snapshot of a PEER_LIST, the peer_graph snapshot of a       *)
(* NETWORK_UPDATE, the listening endpoint of a HANDSHAKE.                  *)
(***************************************************************************)
MAX_HOPS == 10
\* PeerConnection.MAX_BUFFER_SIZE (connection.py)
MAX_BUFFER_SIZE == 1048576

\* The message types whose data holds a text of the user: {"content": text}
\* for a MESSAGE.  The model keeps of a text its identity and its length in
\* bytes.
MsgTypes == {"MESSAGE", "PEST_ALERT"}
Text(text, len) == [text |-> text, len |-> len]

\* Message.__init__ followed by the assignment of message_id: uuid4 draws the
\* id; the caller of NewMessage supplies the drawn value.
NewMessage(peer_id, target_user_id, message_type, data, time_stamp, message_id) ==
    [peer_id        |-> peer_id,
     target_user_id |-> target_user_id,
     message_type   |-> message_type,
     data           |-> data,
     time_stamp     |-> time_stamp,
     message_id     |-> message_id,
     hop_count      |-> 0,
     path           |-> <<peer_id>>]

\* add_hop appending to the path without counting the hop.
add_hop_uncounted(message, peer_id) ==
    [message EXCEPT !.path = Append(@, peer_id)]

add_hop(message, peer_id) ==
    [message EXCEPT !.hop_count = @ + 1, !.path = Append(@, peer_id)]

(***************************************************************************)
(* MessageStore (message_store.py).  offline is the offline_messages table *)
(* in rowid order, schedule the schedule_messages table keyed by its       *)
(* primary key message_id.  The connection never enables foreign keys, so  *)
(* the ON DELETE CASCADE of schedule_messages never runs.                  *)
(***************************************************************************)
EXPIRY == 604800

EmptyStore == [offline |-> <<>>, schedule |-> EmptyMap]

\* Rows of the schedule table with expiry_time <= now.
ExpiredIds(st, now) == {i \in DOMAIN st.schedule : st.schedule[i].expiry_time <= now}
LiveIds(st, now) == {i \in DOMAIN st.schedule : st.schedule[i].expiry_time > now}

\* data_to_message_class: the row's columns back into a Message.
data_to_message_class(row) ==
    [peer_id        |-> row.peer_id,
     target_user_id |-> row.target_user_id,
     message_type   |-> row.message_type,
     data           |-> row.data,
     time_stamp     |-> row.time_stamp,
     message_id     |-> row.message_id,
     hop_count      |-> row.hop_count,
     path           |-> row.path]

\* store_offline_message: both INSERTs or, when one raises IntegrityError (a
\* NULL target_user_id, a message_id already in schedule_messages), neither.
store_offline_message(st, message, now) ==
    IF message.target_user_id = None \/ message.message_id \in DOMAIN st.schedule
    THEN [ok |-> FALSE, store |-> st]
    ELSE [ok |-> TRUE,
          store |-> [offline  |-> Append(st.offline, message),
                     schedule |-> [i \in DOMAIN st.schedule \cup {message.message_id} |->
                                     IF i = message.message_id
                                     THEN [last_tried |-> None, retry_count |-> 0,
                                           expiry_time |-> now + EXPIRY]
                                     ELSE st.schedule[i]]]]

delete_expired_messages(st, now) ==
    [st EXCEPT !.offline = SelectSeq(@, LAMBDA r : r.message_id \notin ExpiredIds(st, now))]

delet_sent_messages(st, target_peer, now) ==
    [st EXCEPT !.offline = SelectSeq(@, LAMBDA r :
        ~(r.target_user_id = target_peer /\ r.message_id \in LiveIds(st, now)))]

\* The SELECT ... JOIN ... WHERE s.expiry_time > ? of the three getters: the
\* rows whose message_id has a live schedule row.
LiveRows(st, now) == SelectSeq(st.offline, LAMBDA r : r.message_id \in LiveIds(st, now))

\* The loop `messages.append(self.data_to_message_class(result))`.
ToMessages(rows) == [i \in 1..Len(rows) |-> data_to_message_class(rows[i])]

get_pending_messages(st, target_peer, now) ==
    LET st1 == delete_expired_messages(st, now)
    IN  [messages |-> ToMessages(SelectSeq(LiveRows(st1, now),
                                           LAMBDA r : r.target_user_id = target_peer)),
         store    |-> delet_sent_messages(st1, target_peer, now)]

get_all_pending_messages(st, now) == ToMessages(LiveRows(st, now))

\* fetchone(): the first matching row, <<>> for None.
get_message_by_id(st, message_id, now) ==
    LET st1 == delete_expired_messages(st, now)
        found == ToMessages(SelectSeq(LiveRows(st1, now),
                                      LAMBDA r : r.message_id = message_id))
    IN  [messages |-> IF found = <<>> THEN <<>> ELSE <<found[1]>>,
         store    |-> st1]

delete_message_by_id(st, message_id) ==
    [st EXCEPT !.offline = SelectSeq(@, LAMBDA r : r.message_id # message_id)]

(***************************************************************************)
(* Codec (message.py).  A JSON text is known by what json.loads makes of    *)
(* it: `root` tells whether it parses and to what ("invalid" for a text     *)
(* json.loads rejects), and, for an object, `members` maps each key to     *)
(* the Python type and the value json.loads gives it.                      *)
(***************************************************************************)
JStr(s)   == [type |-> "str", value |-> s]
JInt(i)   == [type |-> "int", value |-> i]
JDict(d)  == [type |-> "dict", value |-> d]
JList(l)  == [type |-> "list", value |-> l]
JNull     == [type |-> "NoneType", value |-> None]

\* json.dumps of the eight attributes of a Message whose attributes have the
\* types the constructor's callers give them: strings for peer_id,
\* message_type and message_id (the model's small integers stand for the hex
\* strings uuid4 gives), a string or None for target_user_id, a dict for data
\* (the model keeps the content of the dict), a number for time_stamp, an
\* int for hop_count and a list of strings for path.
to_json(message) ==
    [root |-> "object",
     members |->
        [peer_id        |-> JStr(message.peer_id),
         target_user_id |-> IF message.target_user_id = None THEN JNull
                            ELSE JStr(message.target_user_id),
         message_type   |-> JStr(message.message_type),
         data           |-> JDict(message.data),
         time_stamp     |-> JInt(message.time_stamp),
         message_id     |-> JStr(message.message_id),
         hop_count      |-> JInt(message.hop_count),
         path           |-> JList(message.path)]]

required_fields ==
    {"peer_id", "target_user_id", "message_type", "data", "time_stamp", "message_id"}

\* isinstance(x, int) and isinstance(x, (int, float)): bool is a subclass of int.
IntTypes == {"int", "bool"}
NumberTypes == {"int", "float", "bool"}

\* The value a JSON text parses to, attribute by attribute, when it is an object.
Plain(json_str) == [k \in DOMAIN json_str.members |-> json_str.members[k].value]

\* from_json accepting any hop_count.
from_json_no_cap(json_str, clock) ==
    LET data == json_str.members
        hop_count == IF "hop_count" \in DOMAIN data THEN data.hop_count ELSE JInt(0)
        path == IF "path" \in DOMAIN data THEN data.path
                ELSE JList(<<data.peer_id.value>>)
        none == [raised |-> FALSE, ret |-> <<>>]
    IN  IF json_str.root # "object" THEN none
        ELSE IF ~(required_fields \subseteq DOMAIN data) THEN none
        ELSE IF \/ data.peer_id.type # "str"
                \/ data.target_user_id.type \notin {"str", "NoneType"}
                \/ data.message_type.type # "str"
                \/ data.data.type # "dict"
                \/ data.time_stamp.type \notin NumberTypes
                \/ data.message_id.type # "str"
                \/ hop_count.type \notin IntTypes
                \/ path.type # "list"
             THEN none
        ELSE [raised |-> FALSE,
              ret |-> <<[peer_id        |-> data.peer_id.value,
                         target_user_id |-> data.target_user_id.value,
                         message_type   |-> data.message_type.value,
                         data           |-> data.data.value,
                         time_stamp     |-> data.time_stamp.value,
                         message_id     |-> data.message_id.value,
                         hop_count      |-> hop_count.value,
                         path           |-> path.value]>>]

\* from_json keeping the hop_count and the path of a new Message.
from_json_new_hops(json_str, clock) ==
    LET r == from_json_no_cap(json_str, clock)
    IN  IF r.ret = <<>> \/ r.ret[1].hop_count > MAX_HOPS THEN [r EXCEPT !.ret = <<>>]
        ELSE [r EXCEPT !.ret = <<[r.ret[1] EXCEPT !.hop_count = 0,
                                                 !.path = <<r.ret[1].peer_id>>]>>]

\* Message.from_json at time `clock`: ret is <<>> for None and <<message>> for
\* a Message; raised: a TypeError leaves from_json, as `field in data` raises
\* for a number.  The constructor replaces a time_stamp that is false (0) by
\* time.time().
from_json(json_str, clock) ==
    LET data == json_str.members
        hop_count == IF "hop_count" \in DOMAIN data THEN data.hop_count ELSE JInt(0)
        path == IF "path" \in DOMAIN data THEN data.path
                ELSE JList(<<data.peer_id.value>>)
        none == [raised |-> FALSE, ret |-> <<>>]
    IN  IF json_str.root = "invalid" THEN none
        ELSE IF json_str.root = "number" THEN [raised |-> TRUE, ret |-> <<>>]
        ELSE IF json_str.root # "object" THEN none
        ELSE IF ~(required_fields \subseteq DOMAIN data) THEN none
        ELSE IF \/ data.peer_id.type # "str"
                \/ data.target_user_id.type \notin {"str", "NoneType"}
                \/ data.message_type.type # "str"
                \/ data.data.type # "dict"
                \/ data.time_stamp.type \notin NumberTypes
                \/ data.message_id.type # "str"
                \/ hop_count.type \notin IntTypes
                \/ path.type # "list"
             THEN none
        ELSE IF hop_count.value > MAX_HOPS THEN none
        ELSE [raised |-> FALSE,
              ret |-> <<[peer_id        |-> data.peer_id.value,
                         target_user_id |-> data.target_user_id.value,
                         message_type   |-> data.message_type.value,
                         data           |-> data.data.value,
                         time_stamp     |-> IF data.time_stamp.value = 0 THEN clock
                                            ELSE data.time_stamp.value,
                         message_id     |-> data.message_id.value,
                         hop_count      |-> hop_count.value,
                         path           |-> path.value]>>]

(***************************************************************************)
(* Peer (peer.py).  A node's state is a record; a handler is an operator   *)
(* from a context cx = [p, raised, ret] to a context: p the node's state,  *)
(* raised whether an exception is propagating, ret the last return value   *)
(* of send_message / route_message.                                        *)
(***************************************************************************)
\* uuid4 gives every HANDSHAKE, PEER_LIST and NETWORK_UPDATE an id no other
\* message has: FreshId stands for such an id, which is in no seen_messages
\* (seen_messages is tracked for the ids of MESSAGE and PEST_ALERT only).
FreshId == 0

\* PeerConnection.__init__; open: the socket is registered with the selector.
NewConnection ==
    [open |-> FALSE, peer_id |-> None, is_handshake_complete |-> FALSE,
     outbound_buffer |-> <<>>]

\* Peer.__init__ followed by start_server, with a connection slot for each of
\* `links`; running: the process runs; alive: its start_listening loop runs.
\* inbox lists the messages handed to the local handlers (the delivery branch
\* of handle_user_message, handle_received_alert).
NewPeer(links) ==
    [running |-> TRUE,
     alive |-> TRUE,
     known_peers |-> {},
     connections |-> EmptyMap,
     seen_messages |-> {},
     peer_graph |-> EmptyMap,
     routing_graph |-> EmptyMap,
     store |-> EmptyStore,
     conn |-> [l \in links |-> NewConnection],
     inbox |-> <<>>]

Cx(p) == [p |-> p, raised |-> FALSE, ret |-> None]

\* d[k] = v
Put(f, k, v) == [x \in DOMAIN f \cup {k} |-> IF x = k THEN v ELSE f[x]]

\* len(message_bytes): the text of the user, the rest of the JSON text and
\* the newline.
len_bytes(json_message) ==
    TextOverhead + 1 +
        (IF json_message.members.message_type.value \in MsgTypes
         THEN json_message.members.data.value.content.len
         ELSE 0)

\* len(self.outbound_buffer)
RECURSIVE len(_)
len(outbound_buffer) ==
    IF outbound_buffer = <<>> THEN 0
    ELSE len_bytes(Head(outbound_buffer)) + len(Tail(outbound_buffer))

\* PeerConnection.queue_message for the text json_message = message.to_json().
append(outbound_buffer, json_message) ==
    IF len(outbound_buffer) + len_bytes(json_message) > MAX_BUFFER_SIZE
    THEN [ret |-> FALSE, outbound_buffer |-> outbound_buffer]
    ELSE [ret |-> TRUE, outbound_buffer |-> Append(outbound_buffer, json_message)]

\* connection.queue_message(message) on the connection object of link l, by
\* a caller that does not look at the value returned.
queue_message(cx, l, message) ==
    [cx EXCEPT !.p.conn[l].outbound_buffer = append(@, to_json(message)).outbound_buffer]

\* queue_offline_message: store_offline_message, whose IntegrityError propagates.
queue_offline_message(cx, message, now) ==
    LET res == store_offline_message(cx.p.store, message, now)
    IN  IF res.ok THEN [cx EXCEPT !.p.store = res.store]
        ELSE [cx EXCEPT !.raised = TRUE]

\* route_message forwarding to the target itself only.
route_message_no_relay(self, cx, message, now) ==
    LET target == message.target_user_id
        next_hop == Get(cx.p.routing_graph, target, None)
    IN  IF next_hop = target /\ next_hop \in DOMAIN cx.p.connections
        THEN [queue_message(cx, cx.p.connections[next_hop], add_hop(message, self))
                EXCEPT !.ret = TRUE]
        ELSE [queue_offline_message(cx, message, now) EXCEPT !.ret = FALSE]

route_message(self, cx, message, now) ==
    LET target == message.target_user_id
        next_hop == Get(cx.p.routing_graph, target, None)
    IN  IF next_hop = None
        THEN [queue_offline_message(cx, message, now) EXCEPT !.ret = FALSE]
        ELSE IF next_hop \in DOMAIN cx.p.connections
        THEN [queue_message(cx, cx.p.connections[next_hop], add_hop(message, self))
                EXCEPT !.ret = TRUE]
        ELSE [queue_offline_message(cx, message, now) EXCEPT !.ret = FALSE]

send_message(self, cx, message, now) ==
    LET target == message.target_user_id
    IN  IF target \in DOMAIN cx.p.connections /\ target # self
        THEN [queue_message(cx, cx.p.connections[target], add_hop(message, self))
                EXCEPT !.ret = TRUE]
        ELSE route_message(self, cx, message, now)

\* The loop of deliver_queued_messages.
RECURSIVE deliver_loop(_, _, _, _)
deliver_loop(self, cx, messages, now) ==
    IF messages = <<>> \/ cx.raised THEN cx
    ELSE deliver_loop(self, send_message(self, cx, Head(messages), now),
                      Tail(messages), now)

\* deliver_queued_messages taking the pending messages and sending none.
deliver_queued_messages_drop(self, cx, target_peer, now) ==
    [cx EXCEPT !.p.store = get_pending_messages(cx.p.store, target_peer, now).store]

deliver_queued_messages(self, cx, target_peer, now) ==
    LET res == get_pending_messages(cx.p.store, target_peer, now)
    IN  deliver_loop(self, [cx EXCEPT !.p.store = res.store], res.messages, now)

\* The peers of self.connections whose connection has is_handshake_complete.
CompletePeers(p) ==
    {q \in DOMAIN p.connections : p.conn[p.connections[q]].is_handshake_complete}

\* queue_message for each of `texts` in turn.
RECURSIVE queue_all(_, _)
queue_all(outbound_buffer, texts) ==
    IF texts = <<>> THEN outbound_buffer
    ELSE queue_all(append(outbound_buffer, Head(texts)).outbound_buffer, Tail(texts))

\* `for existing_peer_id, existing_connection in self.connections.items()`,
\* restricted to `targets`, queueing on each connection the messages built for
\* its peer: a PEER_LIST when with_list, then a NETWORK_UPDATE when with_graph.
\* Every peer has a connection object of its own, so the order of the loop
\* does not show.
Gossip(self, cx, targets, with_list, with_graph, now) ==
    LET p == cx.p
        msgs(q) ==
            (IF with_list
             THEN <<to_json(NewMessage(self, q, "PEER_LIST", p.known_peers, now, FreshId))>>
             ELSE <<>>)
            \o
            (IF with_graph
             THEN <<to_json(NewMessage(self, q, "NETWORK_UPDATE", p.peer_graph, now, FreshId))>>
             ELSE <<>>)
        peer_of(l) == CHOOSE q \in targets : p.connections[q] = l
    IN  [cx EXCEPT !.p.conn = [l \in DOMAIN p.conn |->
            IF \E q \in targets : p.connections[q] = l
            THEN [p.conn[l] EXCEPT !.outbound_buffer = queue_all(@, msgs(peer_of(l)))]
            ELSE p.conn[l]]]

\* handle_handshake answering every HANDSHAKE with a HANDSHAKE.
handle_handshake_always(self, cx, l, message, now, order) ==
    LET other == message.peer_id
        c1 == [cx EXCEPT !.p.connections = Put(@, other, l)]
        c2 == queue_message(c1, l, NewMessage(self, other, "HANDSHAKE", self, now, FreshId))
        known == cx.p.known_peers \cup {other}
        graph == update_peer_graph(self, cx.p.peer_graph, other)
        c3 == [c2 EXCEPT !.p.known_peers = known,
                         !.p.peer_graph = graph,
                         !.p.routing_graph = update_routing_graph(self, graph, known, order),
                         !.p.conn[l].peer_id = other,
                         !.p.conn[l].is_handshake_complete = TRUE]
        c4 == deliver_queued_messages(self, c3, other, now)
        c5 == Gossip(self, c4, {other}, TRUE, TRUE, now)
    IN  IF c4.raised THEN c4
        ELSE Gossip(self, c5, CompletePeers(c5.p) \ {other}, TRUE, TRUE, now)

handle_handshake(self, cx, l, message, now, order) ==
    LET other == message.peer_id
        c1 == [cx EXCEPT !.p.connections = Put(@, other, l)]
        c2 == IF other \notin cx.p.known_peers
              THEN queue_message(c1, l, NewMessage(self, other, "HANDSHAKE", self, now, FreshId))
              ELSE c1
        known == cx.p.known_peers \cup {other}
        graph == update_peer_graph(self, cx.p.peer_graph, other)
        c3 == [c2 EXCEPT !.p.known_peers = known,
                         !.p.peer_graph = graph,
                         !.p.routing_graph = update_routing_graph(self, graph, known, order),
                         !.p.conn[l].peer_id = other,
                         !.p.conn[l].is_handshake_complete = TRUE]
        c4 == deliver_queued_messages(self, c3, other, now)
        c5 == Gossip(self, c4, {other}, TRUE, TRUE, now)
    IN  IF c4.raised THEN c4
        ELSE Gossip(self, c5, CompletePeers(c5.p) \ {other}, TRUE, TRUE, now)

handle_user_message(self, cx, message, now) ==
    IF message.target_user_id = self
    THEN [cx EXCEPT !.p.inbox = Append(@, message)]
    ELSE route_message(self, cx, message, now)

\* handle_peer_list answering a list that brings nothing new with its own.
handle_peer_list_answer(self, cx, message, now, order) ==
    LET new == {q \in message.data : q # self /\ q \notin cx.p.known_peers}
        known == cx.p.known_peers \cup new
        c1 == [cx EXCEPT !.p.known_peers = known,
                         !.p.routing_graph =
                            update_routing_graph(self, cx.p.peer_graph, known, order)]
    IN  IF new = {}
        THEN Gossip(self, cx, CompletePeers(cx.p) \cap {message.peer_id}, TRUE, FALSE, now)
        ELSE Gossip(self, c1, CompletePeers(c1.p), TRUE, FALSE, now)

\* handle_peer_list keeping what it learned to itself.
handle_peer_list_silent(self, cx, message, now, order) ==
    LET new == {q \in message.data : q # self /\ q \notin cx.p.known_peers}
        known == cx.p.known_peers \cup new
    IN  IF new = {} THEN cx
        ELSE [cx EXCEPT !.p.known_peers = known,
                        !.p.routing_graph =
                            update_routing_graph(self, cx.p.peer_graph, known, order)]

handle_peer_list(self, cx, message, now, order) ==
    LET new == {q \in message.data : q # self /\ q \notin cx.p.known_peers}
        known == cx.p.known_peers \cup new
        c1 == [cx EXCEPT !.p.known_peers = known,
                         !.p.routing_graph =
                            update_routing_graph(self, cx.p.peer_graph, known, order)]
    IN  IF new = {} THEN cx
        ELSE Gossip(self, c1, CompletePeers(c1.p), TRUE, FALSE, now)

\* handle_network_structure_message sending the update back to its sender too.
handle_network_structure_message_echo(self, cx, message, now, order) ==
    LET graph == MergeGraph(cx.p.peer_graph, message.data)
        c1 == [cx EXCEPT !.p.peer_graph = graph,
                         !.p.routing_graph =
                            update_routing_graph(self, graph, cx.p.known_peers, order)]
    IN  IF graph = cx.p.peer_graph THEN cx
        ELSE Gossip(self, c1, CompletePeers(c1.p), FALSE, TRUE, now)

\* handle_network_structure_message without the call of update_routing_graph.
handle_network_structure_message_stale(self, cx, message, now, order) ==
    LET graph == MergeGraph(cx.p.peer_graph, message.data)
        c1 == [cx EXCEPT !.p.peer_graph = graph]
    IN  IF graph = cx.p.peer_graph THEN cx
        ELSE Gossip(self, c1, CompletePeers(c1.p) \ {message.peer_id}, FALSE, TRUE, now)

handle_network_structure_message(self, cx, message, now, order) ==
    LET graph == MergeGraph(cx.p.peer_graph, message.data)
        c1 == [cx EXCEPT !.p.peer_graph = graph,
                         !.p.routing_graph =
                            update_routing_graph(self, graph, cx.p.known_peers, order)]
    IN  IF graph = cx.p.peer_graph THEN cx
        ELSE Gossip(self, c1, CompletePeers(c1.p) \ {message.peer_id}, FALSE, TRUE, now)

\* pest_alert_handler.py.  Peer defines no send_message_to_peer: the first
\* call of it in _forward_alert raises AttributeError.
ALERT_HOP_LIMIT == 3

\* The copy _forward_alert builds for peer_id before it calls
\* send_message_to_peer.
forwarded_msg(self, alert_message, peer_id, now) ==
    [NewMessage(self, peer_id, "PEST_ALERT", alert_message.data, now,
                alert_message.message_id)
        EXCEPT !.hop_count = alert_message.hop_count + 1,
               !.path = Append(alert_message.path, self)]

forward_alert(self, cx, alert_message) ==
    LET exclude_peers == {alert_message.path[i] : i \in 1..Len(alert_message.path)}
    IN  IF \E q \in DOMAIN cx.p.connections : q \notin exclude_peers
        THEN [cx EXCEPT !.raised = TRUE]
        ELSE cx

handle_received_alert(self, cx, alert_message) ==
    LET c1 == [cx EXCEPT !.p.inbox = Append(@, alert_message)]
    IN  IF alert_message.hop_count < ALERT_HOP_LIMIT
        THEN forward_alert(self, c1, alert_message)
        ELSE c1

\* handle_message without the seen_messages test.
handle_message_no_dedup(self, cx, l, message, now, order) ==
    CASE message.message_type = "PEST_ALERT" -> handle_received_alert(self, cx, message)
      [] message.message_type = "HANDSHAKE" -> handle_handshake(self, cx, l, message, now, order)
      [] message.message_type = "MESSAGE" -> handle_user_message(self, cx, message, now)
      [] message.message_type = "PEER_LIST" -> handle_peer_list(self, cx, message, now, order)
      [] message.message_type = "NETWORK_UPDATE" ->
            handle_network_structure_message(self, cx, message, now, order)
      [] OTHER -> cx

handle_message(self, cx, l, message, now, order) ==
    IF message.message_id \in cx.p.seen_messages THEN cx
    ELSE LET c1 == IF message.message_id = FreshId THEN cx
                   ELSE [cx EXCEPT !.p.seen_messages = @ \cup {message.message_id}]
         IN  CASE message.message_type = "PEST_ALERT" -> handle_received_alert(self, c1, message)
               [] message.message_type = "HANDSHAKE" ->
                     handle_handshake(self, c1, l, message, now, order)
               [] message.message_type = "MESSAGE" -> handle_user_message(self, c1, message, now)
               [] message.message_type = "PEER_LIST" ->
                     handle_peer_list(self, c1, message, now, order)
               [] message.message_type = "NETWORK_UPDATE" ->
                     handle_network_structure_message(self, c1, message, now, order)
               [] OTHER -> c1

\* process_message: every complete record of the inbound buffer, in order;
\* an exception of a handler ends the loop.
RECURSIVE process_message(_, _, _, _, _, _)
process_message(self, cx, l, records, now, order) ==
    IF records = <<>> \/ cx.raised THEN cx
    ELSE LET message == from_json(Head(records), now).ret
             c1 == IF message = <<>> THEN cx
                   ELSE handle_message(self, cx, l, message[1], now, order)
         IN  process_message(self, c1, l, Tail(records), now, order)

\* cleanup_connection without the call of router.remove_peer.
cleanup_connection_keep_peer(self, cx, l, now, order) ==
    LET disconnected_peer == cx.p.conn[l].peer_id
        c1 == [cx EXCEPT !.p.conn[l].open = FALSE]
        c2 == [c1 EXCEPT !.p.connections = Restrict(@, DOMAIN @ \ {disconnected_peer}),
                         !.p.routing_graph =
                            update_routing_graph(self, cx.p.peer_graph, cx.p.known_peers, order)]
    IN  IF disconnected_peer = None THEN c1
        ELSE Gossip(self, c2, CompletePeers(c2.p), FALSE, TRUE, now)

cleanup_connection(self, cx, l, now, order) ==
    LET disconnected_peer == cx.p.conn[l].peer_id
        c1 == [cx EXCEPT !.p.conn[l].open = FALSE]
        res == remove_peer(cx.p.peer_graph, cx.p.routing_graph, disconnected_peer)
        c2 == [c1 EXCEPT !.p.connections = Restrict(@, DOMAIN @ \ {disconnected_peer}),
                         !.p.peer_graph = res.peer_graph,
                         !.p.routing_graph =
                            update_routing_graph(self, res.peer_graph, cx.p.known_peers, order)]
    IN  IF disconnected_peer = None THEN c1
        ELSE Gossip(self, c2, CompletePeers(c2.p), FALSE, TRUE, now)

(***************************************************************************)
(* PeerConnection (connection.py) at the level of bytes.  The bytes of the *)
(* r-th text of a stream are <<r, 1>> .. <<r, MaxTextBytes>>, followed by  *)
(* the newline queue_message adds; json.dumps writes no newline inside a   *)
(* text.  A line is the text r when it is exactly the bytes of r, and is   *)
(* no JSON otherwise.                                                      *)
(***************************************************************************)
Newline == <<0, 0>>

\* (json_message + "\n").encode("utf-8") for the r-th text.
message_bytes(r) ==
    [k \in 1..(MaxTextBytes + 1) |-> IF k = MaxTextBytes + 1 THEN Newline ELSE <<r, k>>]

is_message_complete(inbound_buffer) ==
    \E k \in DOMAIN inbound_buffer : inbound_buffer[k] = Newline

\* A split taking the newest complete line of the buffer instead of the
\* oldest.
split_newest(inbound_buffer) ==
    LET k == CHOOSE i \in DOMAIN inbound_buffer :
                /\ inbound_buffer[i] = Newline
                /\ \A j \in (i + 1)..Len(inbound_buffer) : inbound_buffer[j] # Newline
        h == CHOOSE i \in 0..(k - 1) :
                /\ i = 0 \/ inbound_buffer[i] = Newline
                /\ \A j \in (i + 1)..(k - 1) : inbound_buffer[j] # Newline
    IN  [line |-> SubSeq(inbound_buffer, h + 1, k - 1),
         rest |-> SubSeq(inbound_buffer, 1, h) \o
                  SubSeq(inbound_buffer, k + 1, Len(inbound_buffer))]

\* inbound_buffer.split(b"\n", 1)
split(inbound_buffer) ==
    LET k == CHOOSE i \in DOMAIN inbound_buffer :
                /\ inbound_buffer[i] = Newline
                /\ \A j \in 1..(i - 1) : inbound_buffer[j] # Newline
    IN  [line |-> SubSeq(inbound_buffer, 1, k - 1),
         rest |-> SubSeq(inbound_buffer, k + 1, Len(inbound_buffer))]

\* line.decode("utf-8"), as json.loads will see it.
decode(line, texts) ==
    LET whole == {r \in DOMAIN texts : line = SubSeq(message_bytes(r), 1, MaxTextBytes)}
    IN  IF whole = {} THEN [root |-> "invalid", members |-> EmptyMap]
        ELSE texts[CHOOSE r \in whole : TRUE]

\* extract_message emptying the inbound buffer.
extract_message_whole_buffer(inbound_buffer, texts, clock) ==
    IF ~is_message_complete(inbound_buffer)
    THEN [message |-> <<>>, inbound_buffer |-> inbound_buffer]
    ELSE LET r == from_json(decode(split(inbound_buffer).line, texts), clock)
         IN  [message |-> IF r.raised THEN <<>> ELSE r.ret, inbound_buffer |-> <<>>]

\* extract_message: message is <<>> for None; an exception of from_json is
\* caught after the line has been taken from the buffer.
extract_message(inbound_buffer, texts, clock) ==
    IF ~is_message_complete(inbound_buffer)
    THEN [message |-> <<>>, inbound_buffer |-> inbound_buffer]
    ELSE LET parts == split(inbound_buffer)
             r == from_json(decode(parts.line, texts), clock)
         IN  [message |-> IF r.raised THEN <<>> ELSE r.ret,
              inbound_buffer |-> parts.rest]

\* The loop of process_message leaving at the first line that is no Message.
RECURSIVE process_inbound_until_none(_, _, _, _, _, _, _)
process_inbound_until_none(self, cx, l, inbound_buffer, texts, now, order) ==
    IF ~is_message_complete(inbound_buffer) \/ cx.raised
    THEN [cx |-> cx, inbound_buffer |-> inbound_buffer]
    ELSE LET e == extract_message(inbound_buffer, texts, now)
         IN  IF e.message = <<>> THEN [cx |-> cx, inbound_buffer |-> e.inbound_buffer]
             ELSE process_inbound_until_none(
                        self, handle_message(self, cx, l, e.message[1], now, order),
                        l, e.inbound_buffer, texts, now, order)

\* process_message on the bytes of the inbound buffer: the context the
\* handlers leave and the bytes that stay in the buffer.
RECURSIVE process_inbound(_, _, _, _, _, _, _)
process_inbound(self, cx, l, inbound_buffer, texts, now, order) ==
    IF ~is_message_complete(inbound_buffer) \/ cx.raised
    THEN [cx |-> cx, inbound_buffer |-> inbound_buffer]
    ELSE LET e == extract_message(inbound_buffer, texts, now)
             c1 == IF e.message = <<>> THEN cx
                   ELSE handle_message(self, cx, l, e.message[1], now, order)
         IN  process_inbound(self, c1, l, e.inbound_buffer, texts, now, order)

(***************************************************************************)
(* SpecRouter: one Router with peer_id = RSelf.                            *)
(***************************************************************************)
RSelf == "A"

VARIABLES r_graph, r_routing, r_order, r_ev,
          s_store, s_now, s_ticks, s_ev,
          peer, chan, link, ends, now, order, used, n_ev, hist,
          c_message, c_text, c_decoded, c_pc, c_clock,
          f_kinds, f_texts, f_bytes, f_chunks, f_in, f_peer,
          t_out, t_loc, t_wire, t_accepted, t_calls, t_ev

rvars == <<r_graph, r_routing, r_order, r_ev>>
svars == <<s_store, s_now, s_ticks, s_ev>>
nvars == <<peer, chan, link, ends, now, order, used, n_ev, hist>>
cvars == <<c_message, c_text, c_decoded, c_pc, c_clock>>
fvars == <<f_kinds, f_texts, f_bytes, f_chunks, f_in, f_peer>>
tvars == <<t_out, t_loc, t_wire, t_accepted, t_calls, t_ev>>
xvars == <<cvars, fvars, tvars>>
vars == <<rvars, svars, nvars, xvars>>

\* Undirected edges and the adjacency map a peer holding them would send.
Edges == {e \in SUBSET PeerId : Cardinality(e) = 2}
GraphOf(es) == [k \in UNION es |-> {p \in PeerId : {k, p} \in es}]
RecvGraphs == {GraphOf(es) : es \in {s \in SUBSET Edges : Cardinality(s) \in 1..MaxRecvEdges}}

\* The iteration orders of the neighbour sets.  The router's own id is explored
\* before any neighbour is enqueued and is never enqueued again, so its place
\* in the order is immaterial and it is put first.
RouterOrders == {<<RSelf>> \o p : p \in Perms(PeerId \ {RSelf})}

RInit ==
    /\ r_graph = EmptyMap
    /\ r_routing = EmptyMap
    /\ r_order \in RouterOrders
    /\ r_ev = [op |-> "init"]

RUpdatePeerGraph(p) ==
    /\ r_graph' = update_peer_graph(RSelf, r_graph, p)
    /\ r_ev' = [op |-> "update_peer_graph", peer |-> p]
    /\ UNCHANGED <<r_routing, r_order, svars, nvars, xvars>>

RMerge(g) ==
    /\ r_graph' = MergeGraph(r_graph, g)
    /\ r_ev' = [op |-> "merge"]
    /\ UNCHANGED <<r_routing, r_order, svars, nvars, xvars>>

RRemovePeer(x) ==
    LET res == remove_peer(r_graph, r_routing, x)
    IN  /\ r_graph' = res.peer_graph
        /\ r_routing' = res.routing_graph
        /\ r_ev' = [op |-> "remove_peer", peer |-> x,
                    was_key |-> x \in DOMAIN r_graph,
                    was_adjacent |-> \E k \in DOMAIN r_graph : x \in r_graph[k],
                    was_next_hop |-> \E d \in DOMAIN r_routing : r_routing[d] = x]
        /\ UNCHANGED <<r_order, svars, nvars, xvars>>

RUpdateRoutingGraph(known) ==
    /\ r_routing' = update_routing_graph(RSelf, r_graph, known, r_order)
    /\ r_ev' = [op |-> "update_routing_graph", known |-> known]
    /\ UNCHANGED <<r_graph, r_order, svars, nvars, xvars>>

RNext ==
    \/ \E p \in PeerId \ {RSelf} : RUpdatePeerGraph(p)
    \/ \E g \in RecvGraphs : RMerge(g)
    \/ \E x \in PeerId \ {RSelf} : RRemovePeer(x)
    \/ \E known \in SUBSET (PeerId \ {RSelf}) : RUpdateRoutingGraph(known)



(***************************************************************************)
(* SpecStore: one MessageStore driven through its methods, with a clock.   *)
(***************************************************************************)
StoreTargets == {"B", "C"}
TickSteps == {1, EXPIRY}

SInit ==
    /\ s_store = EmptyStore
    /\ s_now = StartTime
    /\ s_ticks = 0
    /\ s_ev = [op |-> "init"]

SStore(t, i) ==
    LET m == NewMessage("A", t, "MESSAGE", "hello", s_now, i)
        res == store_offline_message(s_store, m, s_now)
    IN  /\ s_store' = res.store
        /\ s_ev' = [op |-> "store", id |-> i, ok |-> res.ok]
        /\ UNCHANGED <<s_now, s_ticks, rvars, nvars, xvars>>

SGetPending(t) ==
    LET res == get_pending_messages(s_store, t, s_now)
    IN  /\ s_store' = res.store
        /\ s_ev' = [op |-> "get_pending_messages", returned |-> res.messages,
                    expired |-> ExpiredIds(s_store, s_now)]
        /\ UNCHANGED <<s_now, s_ticks, rvars, nvars, xvars>>

SGetAll ==
    /\ s_ev' = [op |-> "get_all_pending_messages",
                returned |-> get_all_pending_messages(s_store, s_now),
                expired |-> ExpiredIds(s_store, s_now)]
    /\ UNCHANGED <<s_store, s_now, s_ticks, rvars, nvars, xvars>>

SGetById(i) ==
    LET res == get_message_by_id(s_store, i, s_now)
    IN  /\ s_store' = res.store
        /\ s_ev' = [op |-> "get_message_by_id", returned |-> res.messages,
                    expired |-> ExpiredIds(s_store, s_now)]
        /\ UNCHANGED <<s_now, s_ticks, rvars, nvars, xvars>>

SDeleteExpired ==
    /\ s_store' = delete_expired_messages(s_store, s_now)
    /\ s_ev' = [op |-> "delete_expired_messages", returned |-> <<>>,
                expired |-> ExpiredIds(s_store, s_now)]
    /\ UNCHANGED <<s_now, s_ticks, rvars, nvars, xvars>>

SDeleteById(i) ==
    /\ s_store' = delete_message_by_id(s_store, i)
    /\ s_ev' = [op |-> "delete_message_by_id", id |-> i]
    /\ UNCHANGED <<s_now, s_ticks, rvars, nvars, xvars>>

STick(d) ==
    /\ s_ticks < MaxStoreTicks
    /\ s_now' = s_now + d
    /\ s_ticks' = s_ticks + 1
    /\ s_ev' = [op |-> "tick"]
    /\ UNCHANGED <<s_store, rvars, nvars, xvars>>

SNext ==
    \/ \E t \in StoreTargets, i \in 1..MaxStoreIds : SStore(t, i)
    \/ \E t \in StoreTargets : SGetPending(t)
    \/ SGetAll
    \/ \E i \in 1..MaxStoreIds : SGetById(i)
    \/ SDeleteExpired
    \/ \E i \in 1..MaxStoreIds : SDeleteById(i)
    \/ \E d \in TickSteps : STick(d)


(***************************************************************************)
(* Spec: the Peers of `peer` and the TCP links of `ends` between them.     *)
(*   ends[l]    <<the node that calls connect_to_peer, the node accepting>> *)
(*   link[l]    used: the connection was made; closed: the ends that have  *)
(*              closed their socket                                        *)
(*   chan[l][n] the records sent to n on link l that n has not yet read    *)
(*   now        the clock time.time() reads                                *)
(*   order      the iteration order of the neighbour sets                  *)
(*   used       how often the bounded operations have been used            *)
(*   n_ev       the last act of a user, or cleanup_connection, and what it  *)
(*              did                                                        *)
(*   hist       what was submitted, and what the handlers did with         *)
(*              duplicates and with stored messages (history)              *)
(***************************************************************************)
Initiator(l) == ends[l][1]
Responder(l) == ends[l][2]
OtherEnd(l, n) == IF n = Initiator(l) THEN Responder(l) ELSE Initiator(l)
LinksOf(n) == {l \in DOMAIN ends : n \in {Initiator(l), Responder(l)}}

RingNode == {"A", "B", "C"}
RingEnds == <<<<"A", "B">>, <<"B", "C">>, <<"C", "A">>>>
\* Three peers give the breadth-first search no two shortest paths to choose
\* between, so one iteration order stands for all.
RingOrder == <<"A", "B", "C">>
\* The ring is the same seen from each of its nodes: the users of one node
\* submit, to either of the others.
SendNode == {"A"}

MsgIds == 1..MaxMsgIds
\* The id uuid4 gives the alert of a broadcast.
BroadcastId == MaxMsgIds + 1

NoHist == [submitted |-> {}, broadcast |-> {}, handshakes |-> {}, ignored |-> {}, hello |-> {}]
NoUse == [sends |-> 0, ticks |-> 0, exits |-> 0, broadcasts |-> 0]

NInit ==
    /\ ends = RingEnds
    /\ peer = [n \in RingNode |-> NewPeer(DOMAIN RingEnds)]
    /\ chan = [l \in DOMAIN RingEnds |-> [n \in {RingEnds[l][1], RingEnds[l][2]} |-> <<>>]]
    /\ link = [l \in DOMAIN RingEnds |-> [used |-> FALSE, closed |-> {}]]
    /\ now = StartTime
    /\ order = RingOrder
    /\ used = NoUse
    /\ n_ev = [op |-> "init"]
    /\ hist = NoHist

\* The records of the outbound buffers of `after` that `before` did not hold.
Queued(before, after) ==
    [l \in DOMAIN after.conn |->
        [j \in 1..(Len(after.conn[l].outbound_buffer) - Len(before.conn[l].outbound_buffer)) |->
            Plain(after.conn[l].outbound_buffer[Len(before.conn[l].outbound_buffer) + j])]]

\* hist.hello holds <<l, n, k>> for the k-th HANDSHAKE n has queued on link l.
Hello(hello, l, n) == {h \in hello : h[1] = l /\ h[2] = n}

\* hist.hello after the step of n that took it from `before` to `after`.
MoreHello(hello, n, before, after) ==
    LET new(l) == {j \in DOMAIN Queued(before, after)[l] :
                        Queued(before, after)[l][j].message_type = "HANDSHAKE"}
    IN  hello \cup UNION {{<<l, n, Cardinality(Hello(hello, l, n)) + k>> :
                                k \in 1..Cardinality(new(l))} : l \in DOMAIN after.conn}

\* Links whose two ends both completed the handshake and keep the socket open.
Complete(l) ==
    /\ link[l].used /\ link[l].closed = {}
    /\ peer[Initiator(l)].conn[l].is_handshake_complete
    /\ peer[Responder(l)].conn[l].is_handshake_complete

\* The topology the complete links form, as an adjacency map over all nodes.
Topology ==
    [n \in DOMAIN peer |-> {OtherEnd(l, n) : l \in {k \in LinksOf(n) : Complete(k)}}]

\* The selector of n reports link l: there is something to read (data, or the
\* end of the stream), or something to write on a stream the other end keeps.
Ready(n, l) ==
    /\ peer[n].alive /\ peer[n].conn[l].open
    /\ \/ chan[l][n] # <<>>
       \/ OtherEnd(l, n) \in link[l].closed
       \/ peer[n].conn[l].outbound_buffer # <<>>

\* No event loop has anything to do.  The users of the peers (who connect,
\* submit, broadcast) act on a settled network: the runs explored are those
\* in which the traffic one such act causes is over before the next act.  A
\* peer may stop at any moment.
Settled == \A l \in DOMAIN ends : \A n \in DOMAIN chan[l] : ~Ready(n, l)

\* connect_to_peer at the initiator of l, and accept_new_connection at the
\* responder, which its loop runs before it reads from the new socket.
ConnectToPeer(l) ==
    LET a == Initiator(l)
        b == Responder(l)
        handshake == NewMessage(a, None, "HANDSHAKE", a, now, FreshId)
        c1 == queue_message(Cx([peer[a] EXCEPT !.conn[l].open = TRUE]), l, handshake)
    IN  /\ Settled
        /\ ~link[l].used
        /\ peer[a].running /\ peer[a].alive /\ peer[b].running /\ peer[b].alive
        /\ link' = [link EXCEPT ![l].used = TRUE]
        /\ peer' = [peer EXCEPT ![a] = c1.p, ![b].conn[l].open = TRUE]
        /\ hist' = [hist EXCEPT !.hello = MoreHello(@, a, peer[a], c1.p)]
        /\ UNCHANGED <<chan, ends, now, order, used, n_ev, rvars, svars, xvars>>

\* What sock.send on link l at node n can do with the outbound buffer when
\* the other end has closed its socket: the kernel takes the bytes and drops
\* them, or reports ECONNRESET (send_buffered_data returns None), or reports
\* EPIPE, which send_buffered_data does not catch.
SendOutcomes == {"dropped", "ConnectionResetError", "BrokenPipeError"}

\* The write phase of service_connection on link l, after the read phase left
\* the context c of node n: the new state of n and what it puts on the wire.
WritePhase(n, l, c, outcome) ==
    LET buffer == c.p.conn[l].outbound_buffer
        emptied == [c.p EXCEPT !.conn[l].outbound_buffer = <<>>]
    IN  IF c.raised THEN [p |-> [c.p EXCEPT !.alive = FALSE], wire |-> <<>>]
        ELSE IF buffer = <<>> THEN [p |-> c.p, wire |-> <<>>]
        ELSE IF OtherEnd(l, n) \notin link[l].closed
        THEN [p |-> emptied, wire |-> buffer]
        ELSE CASE outcome = "dropped" -> [p |-> emptied, wire |-> <<>>]
               [] outcome = "ConnectionResetError" ->
                    [p |-> cleanup_connection(n, c, l, now, order).p, wire |-> <<>>]
               [] OTHER -> [p |-> [c.p EXCEPT !.alive = FALSE], wire |-> <<>>]

\* What a call of cleanup_connection at n for link l did, `before` and `after`
\* being the states of n around it.
CleanupEvent(n, l, before, after) ==
    [op |-> "cleanup_connection", node |-> n, link |-> l,
     peer_id |-> before.conn[l].peer_id,
     had_route |-> before.conn[l].peer_id \in DOMAIN before.routing_graph,
     connections |-> DOMAIN after.connections,
     routing_graph |-> after.routing_graph,
     queued |-> Queued(before, after)]

\* What the history keeps of a record json read by n on link l, the handler
\* having left context c: the arrival of an id already seen, and, for a
\* HANDSHAKE, each message the store of n held, with whether it had not yet
\* expired and whether the handler queued it on l.
ReadHistory(n, l, json, c) ==
    LET rows == peer[n].store.offline
        on_link == Queued(peer[n], c.p)[l]
    IN  [hist EXCEPT
            !.hello = MoreHello(@, n, peer[n], c.p),
            !.ignored = IF json.message_id \in peer[n].seen_messages
                        THEN @ \cup {<<n, json.message_id>>} ELSE @,
            !.handshakes = IF json.message_type = "HANDSHAKE" /\ ~c.raised
                THEN @ \cup {[node |-> n, from |-> json.peer_id,
                              message_id |-> rows[k].message_id,
                              peer_id |-> rows[k].peer_id,
                              target_user_id |-> rows[k].target_user_id,
                              data |-> rows[k].data,
                              live |-> rows[k].message_id \in LiveIds(peer[n].store, now),
                              queued |-> \E j \in DOMAIN on_link :
                                    on_link[j].message_id = rows[k].message_id]
                             : k \in DOMAIN rows}
                ELSE @]

\* service_connection(EVENT_READ | EVENT_WRITE) at n on link l with data to
\* read.  recv returns any prefix of the bytes in flight; it is taken to return
\* the next record, a longer prefix being the same as consecutive steps.
ServiceRead(n, l) ==
    /\ peer[n].alive /\ peer[n].conn[l].open
    /\ chan[l][n] # <<>>
    /\ \E outcome \in IF OtherEnd(l, n) \in link[l].closed THEN SendOutcomes ELSE {"dropped"} :
       \E c1 \in {process_message(n, Cx(peer[n]), l, <<Head(chan[l][n])>>, now, order)} :
       \E w \in {WritePhase(n, l, c1, outcome)} :
            /\ peer' = [peer EXCEPT ![n] = w.p]
            /\ chan' = [chan EXCEPT ![l][n] = Tail(@),
                                    ![l][OtherEnd(l, n)] = @ \o w.wire]
            /\ link' = IF w.p.conn[l].open THEN link
                       ELSE [link EXCEPT ![l].closed = @ \cup {n}]
            /\ hist' = ReadHistory(n, l, Plain(Head(chan[l][n])), c1)
            /\ n_ev' = IF w.p.conn[l].open THEN n_ev ELSE CleanupEvent(n, l, c1.p, w.p)
    /\ UNCHANGED <<ends, now, order, used, rvars, svars, xvars>>

\* service_connection(EVENT_WRITE) at n on link l with nothing to read.
ServiceWrite(n, l) ==
    /\ peer[n].alive /\ peer[n].conn[l].open
    /\ chan[l][n] = <<>>
    /\ OtherEnd(l, n) \notin link[l].closed
    /\ peer[n].conn[l].outbound_buffer # <<>>
    /\ chan' = [chan EXCEPT ![l][OtherEnd(l, n)] = @ \o peer[n].conn[l].outbound_buffer]
    /\ peer' = [peer EXCEPT ![n].conn[l].outbound_buffer = <<>>]
    /\ UNCHANGED <<link, ends, now, order, used, n_ev, hist, rvars, svars, xvars>>

\* service_connection at n on link l when recv returns b"": the other end has
\* closed and everything it sent has been read.  After cleanup_connection the
\* write phase still runs, and sock.send on the socket just closed raises
\* OSError, which ends start_listening.
ServiceEOF(n, l) ==
    /\ peer[n].alive /\ peer[n].conn[l].open
    /\ chan[l][n] = <<>>
    /\ OtherEnd(l, n) \in link[l].closed
    /\ \E c1 \in {cleanup_connection(n, Cx(peer[n]), l, now, order)} :
       \E p1 \in {IF c1.p.conn[l].outbound_buffer # <<>>
                  THEN [c1.p EXCEPT !.alive = FALSE]
                  ELSE c1.p} :
           /\ peer' = [peer EXCEPT ![n] = p1]
           /\ link' = [link EXCEPT ![l].closed = @ \cup {n}]
           /\ n_ev' = CleanupEvent(n, l, peer[n], c1.p)
    /\ UNCHANGED <<chan, ends, now, order, used, hist, rvars, svars, xvars>>

\* The connection send_message selects for `message` at peer p, 0 for none.
Selected(self, p, message) ==
    LET target == message.target_user_id
        next_hop == Get(p.routing_graph, target, None)
    IN  IF target \in DOMAIN p.connections /\ target # self THEN p.connections[target]
        ELSE IF next_hop # None /\ next_hop \in DOMAIN p.connections
        THEN p.connections[next_hop]
        ELSE 0

\* The application thread of n calls send_message with a new Message, whose
\* data {"content": text} holds a text of `size` bytes told apart by the
\* number of the submission.  An exception of the store goes to the caller,
\* the INSERT rolled back.
SendContent(n, t, i, ty, size) ==
    /\ peer[n].running
    /\ \E message \in {NewMessage(n, t, ty, [content |-> Text(used.sends + 1, size)], now, i)} :
       \E c1 \in {send_message(n, Cx(peer[n]), message, now)} :
       \E l \in {Selected(n, peer[n], message)} :
        /\ used' = [used EXCEPT !.sends = @ + 1]
        /\ peer' = IF c1.raised THEN peer ELSE [peer EXCEPT ![n] = c1.p]
        /\ hist' = [hist EXCEPT !.submitted = @ \cup
                        {[message |-> message, ret |-> c1.ret, raised |-> c1.raised,
                          routed |-> t \in DOMAIN peer[n].routing_graph,
                          connected |-> t \in DOMAIN peer[n].connections,
                          selected |-> l,
                          queued |-> IF l = 0 THEN FALSE
                                     ELSE append(peer[n].conn[l].outbound_buffer,
                                                 to_json(add_hop(message, n))).ret]}]
        /\ n_ev' = [op |-> "send_message", node |-> n, message_id |-> i,
                    ret |-> c1.ret, raised |-> c1.raised]
    /\ UNCHANGED <<chan, link, ends, now, order, rvars, svars, xvars>>

\* A submission of a short text to a settled network.
SendMessage(n, t, i, ty) ==
    /\ Settled
    /\ SendContent(n, t, i, ty, SmallContent)

\* The submissions of a run of Spec and of a run of SpecAlert.
Submit(n, t, i) ==
    /\ used.sends < MaxSends
    /\ SendMessage(n, t, i, "MESSAGE")

SubmitAny(n, t, i, ty) ==
    /\ used.sends < MaxAlertSends
    /\ SendMessage(n, t, i, ty)

\* pest_handler.broadcast_pest_alert at n: the loop over connections calls
\* peer.send_message_to_peer, which Peer does not define.
BroadcastPestAlert(n) ==
    LET alert_message == NewMessage(n, None, "PEST_ALERT", "alert", now, BroadcastId)
        raised == DOMAIN peer[n].connections # {}
    IN  /\ Settled
        /\ used.broadcasts < MaxBroadcasts
        /\ peer[n].running
        /\ used' = [used EXCEPT !.broadcasts = @ + 1]
        /\ hist' = [hist EXCEPT !.broadcast = @ \cup
                        {[message |-> alert_message, topology |-> Topology,
                          connections |-> DOMAIN peer[n].connections,
                          raised |-> raised]}]
        /\ n_ev' = [op |-> "broadcast_pest_alert", node |-> n,
                    peers_alerted |-> 0, raised |-> raised]
        /\ UNCHANGED <<peer, chan, link, ends, now, order, rvars, svars, xvars>>

\* The process of n ends; the kernel closes its sockets.
Exit(n) ==
    /\ used.exits < MaxExits
    /\ peer[n].running
    /\ used' = [used EXCEPT !.exits = @ + 1]
    /\ peer' = [peer EXCEPT ![n].running = FALSE, ![n].alive = FALSE,
                            ![n].conn = [l \in DOMAIN @ |-> [@[l] EXCEPT !.open = FALSE]]]
    /\ link' = [l \in DOMAIN link |->
                    IF l \in LinksOf(n) /\ link[l].used
                    THEN [link[l] EXCEPT !.closed = @ \cup {n}]
                    ELSE link[l]]
    /\ n_ev' = [op |-> "exit", node |-> n]
    /\ UNCHANGED <<chan, ends, now, order, hist, rvars, svars, xvars>>

\* EXPIRY seconds pass.
Tick ==
    /\ Settled
    /\ used.ticks < MaxNetTicks
    /\ used' = [used EXCEPT !.ticks = @ + 1]
    /\ now' = now + EXPIRY
    /\ n_ev' = [op |-> "tick"]
    /\ UNCHANGED <<peer, chan, link, ends, order, hist, rvars, svars, xvars>>

\* Messaging over time: peers connect, users submit messages, the clock runs.
Next ==
    \/ \E l \in DOMAIN ends : ConnectToPeer(l)
    \/ \E l \in DOMAIN ends : \E n \in DOMAIN chan[l] : ServiceRead(n, l)
    \/ \E l \in DOMAIN ends : \E n \in DOMAIN chan[l] : ServiceWrite(n, l)
    \/ \E n \in SendNode : \E t \in DOMAIN peer \ {n}, i \in MsgIds : Submit(n, t, i)
    \/ Tick

\* Alerts: peers connect, users submit messages and alerts.
NextAlert ==
    \/ \E l \in DOMAIN ends : ConnectToPeer(l)
    \/ \E l \in DOMAIN ends : \E n \in DOMAIN chan[l] : ServiceRead(n, l)
    \/ \E l \in DOMAIN ends : \E n \in DOMAIN chan[l] : ServiceWrite(n, l)
    \/ \E n \in SendNode : \E t \in DOMAIN peer \ {n}, i \in MsgIds, ty \in MsgTypes :
            SubmitAny(n, t, i, ty)

\* Broadcasts: peers connect, users broadcast a pest alert.
NextBroadcast ==
    \/ \E l \in DOMAIN ends : ConnectToPeer(l)
    \/ \E l \in DOMAIN ends : \E n \in DOMAIN chan[l] : ServiceRead(n, l)
    \/ \E l \in DOMAIN ends : \E n \in DOMAIN chan[l] : ServiceWrite(n, l)
    \/ \E n \in DOMAIN peer : BroadcastPestAlert(n)

\* A text of which two do not fit into one outbound buffer.
LargeContent == MAX_BUFFER_SIZE \div 2

\* The application thread submits again before the loop has written: send_message
\* does not wait for the socket.
PressureSubmit(n, t, size) ==
    /\ used.sends < MaxPressureSends
    /\ SendContent(n, t, used.sends + 1, "MESSAGE", size)

\* Pressure: peers connect, a user submits short and large texts.
NextPressure ==
    \/ \E l \in DOMAIN ends : ConnectToPeer(l)
    \/ \E l \in DOMAIN ends : \E n \in DOMAIN chan[l] : ServiceRead(n, l)
    \/ \E l \in DOMAIN ends : \E n \in DOMAIN chan[l] : ServiceWrite(n, l)
    \/ \E n \in SendNode : \E t \in DOMAIN peer \ {n}, size \in {SmallContent, LargeContent} :
            PressureSubmit(n, t, size)

\* Departures: peers connect and stop.
NextClose ==
    \/ \E l \in DOMAIN ends : ConnectToPeer(l)
    \/ \E l \in DOMAIN ends : \E n \in DOMAIN chan[l] : ServiceRead(n, l)
    \/ \E l \in DOMAIN ends : \E n \in DOMAIN chan[l] : ServiceWrite(n, l)
    \/ \E l \in DOMAIN ends : \E n \in DOMAIN chan[l] : ServiceEOF(n, l)
    \/ \E n \in DOMAIN peer : Exit(n)

(***************************************************************************)
(* SpecBlock: the sockets may report would-block.  The selector can report *)
(* a socket readable that has nothing to read, and recv then raises        *)
(* BlockingIOError; send raises it when the send buffer of the kernel is   *)
(* full.                                                                   *)
(***************************************************************************)
\* service_connection at n on link l when recv raises BlockingIOError: the
\* except clause calls cleanup_connection; the write phase then runs on the
\* socket just closed, as in ServiceEOF.
RecvWouldBlock(n, l) ==
    /\ peer[n].alive /\ peer[n].conn[l].open
    /\ chan[l][n] = <<>>
    /\ OtherEnd(l, n) \notin link[l].closed
    /\ \E c1 \in {cleanup_connection(n, Cx(peer[n]), l, now, order)} :
       \E p1 \in {IF c1.p.conn[l].outbound_buffer # <<>>
                  THEN [c1.p EXCEPT !.alive = FALSE]
                  ELSE c1.p} :
           /\ peer' = [peer EXCEPT ![n] = p1]
           /\ link' = [link EXCEPT ![l].closed = @ \cup {n}]
           /\ n_ev' = CleanupEvent(n, l, peer[n], c1.p)
    /\ UNCHANGED <<chan, ends, now, order, used, hist, rvars, svars, xvars>>

\* service_connection(EVENT_WRITE) at n on link l when sock.send raises
\* BlockingIOError: send_buffered_data returns False and the buffer stays.
SendWouldBlock(n, l) ==
    /\ peer[n].alive /\ peer[n].conn[l].open
    /\ chan[l][n] = <<>>
    /\ OtherEnd(l, n) \notin link[l].closed
    /\ peer[n].conn[l].outbound_buffer # <<>>
    /\ n_ev' = [op |-> "send_buffered_data", node |-> n, link |-> l, ret |-> FALSE]
    /\ UNCHANGED <<peer, chan, link, ends, now, order, used, hist, rvars, svars, xvars>>

NextBlock ==
    \/ \E l \in DOMAIN ends : ConnectToPeer(l)
    \/ \E l \in DOMAIN ends : \E n \in DOMAIN chan[l] : ServiceRead(n, l)
    \/ \E l \in DOMAIN ends : \E n \in DOMAIN chan[l] : ServiceWrite(n, l)
    \/ \E l \in DOMAIN ends : \E n \in DOMAIN chan[l] : ServiceEOF(n, l)
    \/ \E l \in DOMAIN ends : \E n \in DOMAIN chan[l] : RecvWouldBlock(n, l)
    \/ \E l \in DOMAIN ends : \E n \in DOMAIN chan[l] : SendWouldBlock(n, l)

(***************************************************************************)
(* SpecParallel: two peers and two TCP connections between them, one       *)
(* opened by each; either connection may be reset while both peers run.    *)
(***************************************************************************)
ParallelNode == {"A", "B"}
ParallelEnds == <<<<"A", "B">>, <<"B", "A">>>>

ParallelInit ==
    /\ ends = ParallelEnds
    /\ peer = [n \in ParallelNode |-> NewPeer(DOMAIN ParallelEnds)]
    /\ chan = [l \in DOMAIN ParallelEnds |-> [n \in ParallelNode |-> <<>>]]
    /\ link = [l \in DOMAIN ParallelEnds |-> [used |-> FALSE, closed |-> {}]]
    /\ now = StartTime
    /\ order = <<"A", "B">>
    /\ used = NoUse
    /\ n_ev = [op |-> "init"]
    /\ hist = NoHist

\* service_connection at n on link l when recv raises ConnectionResetError
\* (the connection was reset on the way): the except clause calls
\* cleanup_connection; the write phase then runs on the socket just closed,
\* as in ServiceEOF.
RecvReset(n, l) ==
    /\ peer[n].alive /\ peer[n].conn[l].open
    /\ chan[l][n] = <<>>
    /\ OtherEnd(l, n) \notin link[l].closed
    /\ \E c1 \in {cleanup_connection(n, Cx(peer[n]), l, now, order)} :
       \E p1 \in {IF c1.p.conn[l].outbound_buffer # <<>>
                  THEN [c1.p EXCEPT !.alive = FALSE]
                  ELSE c1.p} :
           /\ peer' = [peer EXCEPT ![n] = p1]
           /\ link' = [link EXCEPT ![l].closed = @ \cup {n}]
           /\ n_ev' = CleanupEvent(n, l, peer[n], c1.p)
    /\ UNCHANGED <<chan, ends, now, order, used, hist, rvars, svars, xvars>>

NextParallel ==
    \/ \E l \in DOMAIN ends : ConnectToPeer(l)
    \/ \E l \in DOMAIN ends : \E n \in DOMAIN chan[l] : ServiceRead(n, l)
    \/ \E l \in DOMAIN ends : \E n \in DOMAIN chan[l] : ServiceWrite(n, l)
    \/ \E l \in DOMAIN ends : \E n \in DOMAIN chan[l] : ServiceEOF(n, l)
    \/ \E l \in DOMAIN ends : \E n \in DOMAIN chan[l] : RecvReset(n, l)

(***************************************************************************)
(* SpecChain: MaxChainLen peers in a line, every link complete and the     *)
(* gossip over: each peer knows all the others, holds the whole line as    *)
(* its peer_graph and the routing_graph update_routing_graph computes from *)
(* it (the state Spec settles in for the line A - B - C).  A user submits  *)
(* one message.                                                            *)
(***************************************************************************)
ChainName == <<"A", "B", "C", "D", "E", "F", "G", "H", "I", "J", "K", "L", "M", "N">>
ChainNode == {ChainName[k] : k \in 1..MaxChainLen}
ChainEnds == [l \in 1..(MaxChainLen - 1) |-> <<ChainName[l], ChainName[l + 1]>>]
ChainGraph ==
    [n \in ChainNode |->
        {ChainEnds[l][1] : l \in {k \in DOMAIN ChainEnds : ChainEnds[k][2] = n}}
        \cup {ChainEnds[l][2] : l \in {k \in DOMAIN ChainEnds : ChainEnds[k][1] = n}}]
ChainOrder == SubSeq(ChainName, 1, MaxChainLen)

ChainPeer(n) ==
    LET mine == {l \in DOMAIN ChainEnds : n \in {ChainEnds[l][1], ChainEnds[l][2]}}
        far(l) == IF ChainEnds[l][1] = n THEN ChainEnds[l][2] ELSE ChainEnds[l][1]
    IN  [NewPeer(DOMAIN ChainEnds) EXCEPT
            !.known_peers = ChainNode \ {n},
            !.connections = [q \in ChainGraph[n] |-> CHOOSE l \in mine : far(l) = q],
            !.peer_graph = ChainGraph,
            !.routing_graph = update_routing_graph(n, ChainGraph, ChainNode \ {n}, ChainOrder),
            !.conn = [l \in mine |->
                        [open |-> TRUE, peer_id |-> far(l),
                         is_handshake_complete |-> TRUE, outbound_buffer |-> <<>>]]]

ChainInit ==
    /\ ends = ChainEnds
    /\ peer = [n \in ChainNode |-> ChainPeer(n)]
    /\ chan = [l \in DOMAIN ChainEnds |-> [n \in {ChainEnds[l][1], ChainEnds[l][2]} |-> <<>>]]
    /\ link = [l \in DOMAIN ChainEnds |-> [used |-> TRUE, closed |-> {}]]
    /\ now = StartTime
    /\ order = ChainOrder
    /\ used = NoUse
    /\ n_ev = [op |-> "init"]
    /\ hist = NoHist

\* A submission of a run of SpecChain, with a message_id of its own.
ChainSend(n, t) ==
    /\ used.sends < MaxChainSends
    /\ SendMessage(n, t, used.sends + 1, "MESSAGE")

NextChain ==
    \/ \E n \in DOMAIN peer : \E t \in DOMAIN peer \ {n} : ChainSend(n, t)
    \/ \E l \in DOMAIN ends : \E n \in DOMAIN chan[l] : ServiceRead(n, l)
    \/ \E l \in DOMAIN ends : \E n \in DOMAIN chan[l] : ServiceWrite(n, l)

\* Discovery: MaxLineLen peers that know nothing; the links of the line
\* between them are made in any order.
LineNode == {ChainName[k] : k \in 1..MaxLineLen}
LineEnds == [l \in 1..(MaxLineLen - 1) |-> <<ChainName[l], ChainName[l + 1]>>]

LineInit ==
    /\ ends = LineEnds
    /\ peer = [n \in LineNode |-> NewPeer({l \in DOMAIN LineEnds : n \in {LineEnds[l][1], LineEnds[l][2]}})]
    /\ chan = [l \in DOMAIN LineEnds |-> [n \in {LineEnds[l][1], LineEnds[l][2]} |-> <<>>]]
    /\ link = [l \in DOMAIN LineEnds |-> [used |-> FALSE, closed |-> {}]]
    /\ now = StartTime
    /\ order = SubSeq(ChainName, 1, MaxLineLen)
    /\ used = NoUse
    /\ n_ev = [op |-> "init"]
    /\ hist = NoHist

NextDiscover ==
    \/ \E l \in DOMAIN ends : ConnectToPeer(l)
    \/ \E l \in DOMAIN ends : \E n \in DOMAIN chan[l] : ServiceRead(n, l)
    \/ \E l \in DOMAIN ends : \E n \in DOMAIN chan[l] : ServiceWrite(n, l)

(***************************************************************************)
(* SpecSelf: peer A, told to connect to its own listening endpoint, and a  *)
(* second peer B it may connect to.  connect_to_peer does not compare the  *)
(* address with (self.host, self.port): the connection is made, and A holds *)
(* both of its sockets.  Link 1 is the socket connect_to_peer creates,     *)
(* link 2 the one accept_new_connection creates; chan[l]["A"] is what      *)
(* socket l has to read, which is what its twin wrote.                     *)
(***************************************************************************)
SelfNode == {"A", "B"}
SelfEnds == <<<<"A", "A">>, <<"A", "A">>, <<"A", "B">>>>
SelfLinks == {l \in DOMAIN ends : Initiator(l) = Responder(l)}
Twin(l) == IF l = 1 THEN 2 ELSE 1

SelfInit ==
    /\ ends = SelfEnds
    /\ peer = [n \in SelfNode |->
                NewPeer({l \in DOMAIN SelfEnds : n \in {SelfEnds[l][1], SelfEnds[l][2]}})]
    /\ chan = [l \in DOMAIN SelfEnds |-> [n \in {SelfEnds[l][1], SelfEnds[l][2]} |-> <<>>]]
    /\ link = [l \in DOMAIN SelfEnds |-> [used |-> FALSE, closed |-> {}]]
    /\ now = StartTime
    /\ order = <<"A", "B">>
    /\ used = NoUse
    /\ n_ev = [op |-> "init"]
    /\ hist = NoHist

\* connect_to_peer(self.host, self.port) at n, and accept_new_connection at n.
ConnectToSelf(n) ==
    LET handshake == NewMessage(n, None, "HANDSHAKE", n, now, FreshId)
        c1 == queue_message(Cx([peer[n] EXCEPT !.conn[1].open = TRUE]), 1, handshake)
    IN  /\ Settled
        /\ ~link[1].used
        /\ peer[n].running /\ peer[n].alive
        /\ link' = [link EXCEPT ![1].used = TRUE, ![2].used = TRUE]
        /\ peer' = [peer EXCEPT ![n] = [c1.p EXCEPT !.conn[2].open = TRUE]]
        /\ hist' = [hist EXCEPT !.hello = MoreHello(@, n, peer[n], c1.p)]
        /\ UNCHANGED <<chan, ends, now, order, used, n_ev, rvars, svars, xvars>>

\* service_connection(EVENT_READ | EVENT_WRITE) at n on its socket l of the
\* connection to itself, with data to read.
SelfRead(n, l) ==
    /\ peer[n].alive /\ peer[n].conn[l].open
    /\ chan[l][n] # <<>>
    /\ \E c1 \in {process_message(n, Cx(peer[n]), l, <<Head(chan[l][n])>>, now, order)} :
       \E w \in {WritePhase(n, l, c1, "dropped")} :
            /\ peer' = [peer EXCEPT ![n] = w.p]
            /\ chan' = [k \in DOMAIN chan |->
                            IF k = l THEN [chan[k] EXCEPT ![n] = Tail(@)]
                            ELSE IF k = Twin(l) THEN [chan[k] EXCEPT ![n] = @ \o w.wire]
                            ELSE chan[k]]
            /\ hist' = ReadHistory(n, l, Plain(Head(chan[l][n])), c1)
    /\ UNCHANGED <<link, ends, now, order, used, n_ev, rvars, svars, xvars>>

\* service_connection(EVENT_WRITE) at n on its socket l of the connection to
\* itself, with nothing to read.
SelfWrite(n, l) ==
    /\ peer[n].alive /\ peer[n].conn[l].open
    /\ chan[l][n] = <<>>
    /\ peer[n].conn[l].outbound_buffer # <<>>
    /\ chan' = [chan EXCEPT ![Twin(l)][n] = @ \o peer[n].conn[l].outbound_buffer]
    /\ peer' = [peer EXCEPT ![n].conn[l].outbound_buffer = <<>>]
    /\ UNCHANGED <<link, ends, now, order, used, n_ev, hist, rvars, svars, xvars>>

NextSelf ==
    \/ \E l \in SelfLinks : ConnectToSelf(Initiator(l))
    \/ \E l \in SelfLinks : SelfRead(Initiator(l), l)
    \/ \E l \in SelfLinks : SelfWrite(Initiator(l), l)
    \/ \E l \in DOMAIN ends \ SelfLinks : ConnectToPeer(l)
    \/ \E l \in DOMAIN ends \ SelfLinks : \E n \in DOMAIN chan[l] : ServiceRead(n, l)
    \/ \E l \in DOMAIN ends \ SelfLinks : \E n \in DOMAIN chan[l] : ServiceWrite(n, l)

\* What ChainInit rests on, an invariant of SpecBroadcast: once the handshakes
\* and the gossip of the line A - B - C are over, every peer knows the others,
\* is connected to its neighbours, holds the line as peer_graph and the
\* routing_graph computed from it.
SettledLineShape ==
    (Settled /\ Complete(1) /\ Complete(2) /\ ~link[3].used) =>
        \A n \in DOMAIN peer :
            /\ peer[n].known_peers = DOMAIN peer \ {n}
            /\ DOMAIN peer[n].connections = Topology[n]
            /\ peer[n].peer_graph = Topology
            /\ peer[n].routing_graph =
                    update_routing_graph(n, Topology, DOMAIN peer \ {n}, order)

(***************************************************************************)
(* SpecCodec: a Message is encoded by to_json; the text reaches from_json  *)
(* as written, or it is the text of another sender, which differs from a   *)
(* text to_json writes in one respect.                                     *)
(***************************************************************************)
CodecPeer == {"A", "B"}
CodecData == {[content |-> "hello"], [pest_type |-> "aphid", pest_count |-> 3]}
CodecPaths == UNION {[1..k -> CodecPeer] : k \in 0..MaxCodecPath}

\* The Message objects the program builds: the constructor, then the
\* assignments of message_id, hop_count and path that from_json,
\* data_to_message_class and add_hop make.
CodecMessages ==
    {[NewMessage(p, t, ty, d, ts, i) EXCEPT !.hop_count = h, !.path = pa] :
        p \in CodecPeer, t \in {None, "B"}, ty \in {"MESSAGE", "PEST_ALERT"},
        d \in CodecData, ts \in StartTime..(StartTime + MaxCodecClock - 1),
        i \in 1..MaxCodecIds, h \in 0..MAX_HOPS, pa \in CodecPaths}

\* The ways the text of another sender differs from what to_json writes.
Alterations ==
    {"invalid", "number", "array",
     "no peer_id", "no data", "no message_id", "no hop_count", "no path",
     "int peer_id", "int target_user_id", "list data", "str time_stamp",
     "int message_id", "str hop_count", "dict path",
     "hop_count 11", "hop_count 12", "time_stamp 0",
     "no target_user_id", "no message_type", "no time_stamp", "int message_type"}

Without(json_str, k) ==
    [json_str EXCEPT !.members = [j \in DOMAIN @ \ {k} |-> @[j]]]

Alter(json_str, how) ==
    CASE how \in {"invalid", "number", "array"} -> [root |-> how, members |-> EmptyMap]
      [] how = "no peer_id" -> Without(json_str, "peer_id")
      [] how = "no data" -> Without(json_str, "data")
      [] how = "no message_id" -> Without(json_str, "message_id")
      [] how = "no hop_count" -> Without(json_str, "hop_count")
      [] how = "no path" -> Without(json_str, "path")
      [] how = "int peer_id" -> [json_str EXCEPT !.members.peer_id = JInt(7)]
      [] how = "int target_user_id" -> [json_str EXCEPT !.members.target_user_id = JInt(7)]
      [] how = "list data" -> [json_str EXCEPT !.members.data = JList(<<>>)]
      [] how = "str time_stamp" -> [json_str EXCEPT !.members.time_stamp = JStr("now")]
      [] how = "int message_id" -> [json_str EXCEPT !.members.message_id = JInt(7)]
      [] how = "str hop_count" -> [json_str EXCEPT !.members.hop_count = JStr("1")]
      [] how = "dict path" -> [json_str EXCEPT !.members.path = JDict(EmptyMap)]
      [] how = "hop_count 11" -> [json_str EXCEPT !.members.hop_count = JInt(MAX_HOPS + 1)]
      [] how = "hop_count 12" -> [json_str EXCEPT !.members.hop_count = JInt(MAX_HOPS + 2)]
      [] how = "time_stamp 0" -> [json_str EXCEPT !.members.time_stamp = JInt(0)]
      [] how = "no target_user_id" -> Without(json_str, "target_user_id")
      [] how = "no message_type" -> Without(json_str, "message_type")
      [] how = "no time_stamp" -> Without(json_str, "time_stamp")
      [] how = "int message_type" -> [json_str EXCEPT !.members.message_type = JInt(7)]

CInit ==
    /\ c_message \in CodecMessages
    /\ c_text = <<>>
    /\ c_decoded = <<>>
    /\ c_pc = "message"
    /\ c_clock = StartTime + MaxCodecClock

\* m.to_json()
CToJson ==
    /\ c_pc = "message"
    /\ c_text' = to_json(c_message)
    /\ c_pc' = "to_json"
    /\ UNCHANGED <<c_message, c_decoded, c_clock, rvars, svars, nvars, fvars, tvars>>

\* The text to decode is not the one written: another sender's.
COther(how) ==
    /\ c_pc = "to_json"
    /\ c_text' = Alter(c_text, how)
    /\ c_pc' = how
    /\ UNCHANGED <<c_message, c_decoded, c_clock, rvars, svars, nvars, fvars, tvars>>

\* Message.from_json(text)
CFromJson ==
    /\ c_pc \in {"to_json"} \cup Alterations
    /\ c_decoded' = <<c_pc, from_json(c_text, c_clock)>>
    /\ c_pc' = "from_json"
    /\ UNCHANGED <<c_message, c_text, c_clock, rvars, svars, nvars, fvars, tvars>>

CNext ==
    \/ CToJson
    \/ \E how \in Alterations : COther(how)
    \/ CFromJson

(***************************************************************************)
(* SpecFraming: the event loop of peer B reads a stream of texts from one  *)
(* connection, recv returning the bytes in chunks of any size.             *)
(***************************************************************************)
FrameSelf == "B"
FrameLink == 1

\* B with the connection of FrameLink accepted and nothing else.
FramePeer == [NewPeer({FrameLink}) EXCEPT !.conn[FrameLink].open = TRUE]

FrameMalformed == {"invalid", "number", "no data", "int peer_id"}
FrameKinds == {"to B", "to B again", "to C", "hop_count 11"} \cup FrameMalformed

\* The texts a sender A writes as the r-th of a stream: a MESSAGE for B with
\* an id of its own or with the id of the first text, one for C, and texts
\* that differ from the first in one respect.
FrameText(kind, r) ==
    LET message(t, i) ==
            add_hop(NewMessage("A", t, "MESSAGE", [content |-> Text("hello", SmallContent)], StartTime, i), "A")
    IN  CASE kind = "to B" -> to_json(message("B", r))
          [] kind = "to B again" -> to_json(message("B", 1))
          [] kind = "to C" -> to_json(message("C", r))
          [] OTHER -> Alter(to_json(message("B", r)), kind)

RECURSIVE FrameBytes(_)
FrameBytes(n) == IF n = 0 THEN <<>> ELSE FrameBytes(n - 1) \o message_bytes(n)

FInit ==
    /\ \E n \in 1..MaxFrameRecords : \E kinds \in [1..n -> FrameKinds] :
        /\ f_kinds = kinds
        /\ f_texts = [r \in 1..n |-> FrameText(kinds[r], r)]
        /\ f_bytes = FrameBytes(n)
    /\ f_chunks = <<>>
    /\ f_in = <<>>
    /\ f_peer = FramePeer

\* The bytes recv has returned so far.
FrameReceived ==
    LET Sum[k \in 0..Len(f_chunks)] == IF k = 0 THEN 0 ELSE Sum[k - 1] + f_chunks[k]
    IN  Sum[Len(f_chunks)]

\* service_connection(EVENT_READ | EVENT_WRITE) with recv returning the next
\* size bytes of the stream; nothing is queued to write.  An exception of a
\* handler ends start_listening.
FRecv(size) ==
    /\ f_peer.alive /\ f_peer.conn[FrameLink].open
    /\ FrameReceived + size <= Len(f_bytes)
    /\ \E got \in {process_inbound(FrameSelf, Cx(f_peer), FrameLink,
                                   f_in \o SubSeq(f_bytes, FrameReceived + 1,
                                                  FrameReceived + size),
                                   f_texts, now, order)} :
        /\ f_peer' = IF got.cx.raised THEN [got.cx.p EXCEPT !.alive = FALSE] ELSE got.cx.p
        /\ f_in' = got.inbound_buffer
    /\ f_chunks' = Append(f_chunks, size)
    /\ UNCHANGED <<f_kinds, f_texts, f_bytes, rvars, svars, nvars, cvars, tvars>>

FNext == \E size \in 1..(MaxFrameRecords * (MaxTextBytes + 1)) : FRecv(size)

(***************************************************************************)
(* SpecBuffer: the outbound buffer of one PeerConnection.  Two threads use *)
(* it and no lock is taken: the thread of start_listening ("loop") calls   *)
(* queue_message from its handlers and send_buffered_data when the socket  *)
(* is writable; the thread of the application ("app") calls queue_message  *)
(* through send_message.  A step is one read or one write of the attribute *)
(* outbound_buffer; the bytes are counted in blocks of BlockBytes, and the *)
(* j-th block of the k-th message of thread th is <<th, k, j>>.            *)
(***************************************************************************)
Threads == {"loop", "app"}
BlockBytes == MAX_BUFFER_SIZE \div BufferBlocks

IdleLocal == [pc |-> "idle", buffer |-> <<>>, message_bytes |-> <<>>, sent |-> 0]

TInit ==
    /\ t_out = <<>>
    /\ t_loc = [th \in Threads |-> IdleLocal]
    /\ t_wire = <<>>
    /\ t_accepted = <<>>
    /\ t_calls = [th \in Threads |-> 0]
    /\ t_ev = [op |-> "init"]

\* queue_message up to its test: message_bytes is built, the length of the
\* buffer is read and compared; the call returns False when the message
\* does not fit.
QueueTest(th, size) ==
    LET new_bytes == [j \in 1..size |-> <<th, t_calls[th] + 1, j>>]
    IN  /\ t_loc[th].pc = "idle"
        /\ t_calls["loop"] + t_calls["app"] < MaxQueueCalls
        /\ t_calls' = [t_calls EXCEPT ![th] = @ + 1]
        /\ IF (Len(t_out) + Len(new_bytes)) * BlockBytes > MAX_BUFFER_SIZE
           THEN /\ t_ev' = [op |-> "queue_message", thread |-> th, ret |-> FALSE,
                            before |-> t_out]
                /\ UNCHANGED t_loc
           ELSE /\ t_ev' = [op |-> "test", thread |-> th]
                /\ t_loc' = [t_loc EXCEPT ![th] = [IdleLocal EXCEPT
                                !.pc = "append", !.message_bytes = new_bytes]]
        /\ UNCHANGED <<t_out, t_wire, t_accepted, rvars, svars, nvars, cvars, fvars>>

\* `self.outbound_buffer += message_bytes`: the attribute is read ...
QueueLoad(th) ==
    /\ t_loc[th].pc = "append"
    /\ t_loc' = [t_loc EXCEPT ![th].pc = "store", ![th].buffer = t_out]
    /\ t_ev' = [op |-> "load", thread |-> th]
    /\ UNCHANGED <<t_out, t_wire, t_accepted, t_calls, rvars, svars, nvars, cvars, fvars>>

\* ... and the sum is assigned to it; the call returns True.
QueueStore(th) ==
    /\ t_loc[th].pc = "store"
    /\ t_out' = t_loc[th].buffer \o t_loc[th].message_bytes
    /\ t_accepted' = t_accepted \o t_loc[th].message_bytes
    /\ t_loc' = [t_loc EXCEPT ![th] = IdleLocal]
    /\ t_ev' = [op |-> "queue_message", thread |-> th, ret |-> TRUE, before |-> t_out]
    /\ UNCHANGED <<t_wire, t_calls, rvars, svars, nvars, cvars, fvars>>

\* send_buffered_data on a buffer that is not empty:
\* `sent = self.socket.send(self.outbound_buffer)`, the socket taking the
\* first `sent` blocks.
Send(sent) ==
    /\ t_loc["loop"].pc = "idle"
    /\ sent <= Len(t_out)
    /\ t_wire' = t_wire \o SubSeq(t_out, 1, sent)
    /\ t_loc' = [t_loc EXCEPT !["loop"] = [IdleLocal EXCEPT !.pc = "slice", !.sent = sent]]
    /\ t_ev' = [op |-> "send", thread |-> "loop"]
    /\ UNCHANGED <<t_out, t_accepted, t_calls, rvars, svars, nvars, cvars, fvars>>

\* `self.outbound_buffer = self.outbound_buffer[sent:]`: the attribute is
\* read ...
SliceLoad ==
    /\ t_loc["loop"].pc = "slice"
    /\ t_loc' = [t_loc EXCEPT !["loop"].pc = "assign", !["loop"].buffer = t_out]
    /\ t_ev' = [op |-> "load", thread |-> "loop"]
    /\ UNCHANGED <<t_out, t_wire, t_accepted, t_calls, rvars, svars, nvars, cvars, fvars>>

\* ... and the slice is assigned to it; the call returns whether the buffer
\* is empty.
SliceStore ==
    LET rest == SubSeq(t_loc["loop"].buffer, t_loc["loop"].sent + 1,
                       Len(t_loc["loop"].buffer))
    IN  /\ t_loc["loop"].pc = "assign"
        /\ t_out' = rest
        /\ t_loc' = [t_loc EXCEPT !["loop"] = IdleLocal]
        /\ t_ev' = [op |-> "send_buffered_data", thread |-> "loop", ret |-> rest = <<>>]
        /\ UNCHANGED <<t_wire, t_accepted, t_calls, rvars, svars, nvars, cvars, fvars>>

TNext ==
    \/ \E th \in Threads, size \in 1..BufferBlocks : QueueTest(th, size)
    \/ \E th \in Threads : QueueLoad(th)
    \/ \E th \in Threads : QueueStore(th)
    \/ \E sent \in 1..(MaxQueueCalls * BufferBlocks) : Send(sent)
    \/ SliceLoad
    \/ SliceStore

(***************************************************************************)
(* Specifications.  Each drives one component and keeps the others' state  *)
(* at its initial value.                                                   *)
(***************************************************************************)
CIdle ==
    /\ c_message = <<>>
    /\ c_text = <<>>
    /\ c_decoded = <<>>
    /\ c_pc = "idle"
    /\ c_clock = StartTime

FIdle ==
    /\ f_kinds = <<>>
    /\ f_texts = <<>>
    /\ f_bytes = <<>>
    /\ f_chunks = <<>>
    /\ f_in = <<>>
    /\ f_peer = <<>>

XIdle == CIdle /\ FIdle /\ TInit

RIdle ==
    /\ r_graph = EmptyMap
    /\ r_routing = EmptyMap
    /\ r_order = <<"A", "B", "C", "D">>
    /\ r_ev = [op |-> "init"]

NIdle ==
    /\ ends = <<>>
    /\ peer = EmptyMap
    /\ chan = <<>>
    /\ link = <<>>
    /\ now = StartTime
    /\ order = <<>>
    /\ used = NoUse
    /\ n_ev = [op |-> "init"]
    /\ hist = NoHist

RouterInit == RInit /\ SInit /\ NIdle /\ XIdle
SpecRouter == RouterInit /\ [][RNext]_vars

StoreInit == SInit /\ RIdle /\ NIdle /\ XIdle
SpecStore == StoreInit /\ [][SNext]_vars

Init == NInit /\ RIdle /\ SInit /\ XIdle
Spec == Init /\ [][Next]_vars
SpecAlert == Init /\ [][NextAlert]_vars
SpecBroadcast == Init /\ [][NextBroadcast]_vars

InitChain == ChainInit /\ RIdle /\ SInit /\ XIdle
SpecChain == InitChain /\ [][NextChain]_vars
SpecClose == Init /\ [][NextClose]_vars
SpecBlock == Init /\ [][NextBlock]_vars
InitParallel == ParallelInit /\ RIdle /\ SInit /\ XIdle
SpecParallel == InitParallel /\ [][NextParallel]_vars
SpecPressure == Init /\ [][NextPressure]_vars

InitLine == LineInit /\ RIdle /\ SInit /\ XIdle
SpecDiscover == InitLine /\ [][NextDiscover]_vars
\* The event loops run: a socket that select reports ready is served.  For
\* the reads weak fairness is written out, with the enabling condition of
\* ServiceRead in place of ENABLED.
WriteStep == \E l \in DOMAIN ends : \E n \in DOMAIN chan[l] : ServiceWrite(n, l)
ReadStep == \E l \in DOMAIN ends : \E n \in DOMAIN chan[l] : ServiceRead(n, l)
ReadReady ==
    \E l \in DOMAIN ends : \E n \in DOMAIN chan[l] :
        peer[n].alive /\ peer[n].conn[l].open /\ chan[l][n] # <<>>
LoopsRun ==
    /\ WF_vars(WriteStep)
    /\ []<>(~ReadReady) \/ []<><<ReadStep>>_vars
SpecQuiesce == InitLine /\ [][NextDiscover]_vars /\ LoopsRun
InitSelf == SelfInit /\ RIdle /\ SInit /\ XIdle
SpecSelf == InitSelf /\ [][NextSelf]_vars

CodecInit == CInit /\ RIdle /\ SInit /\ NIdle /\ FIdle /\ TInit
SpecCodec == CodecInit /\ [][CNext]_vars

FramingInit == FInit /\ RIdle /\ SInit /\ NIdle /\ CIdle /\ TInit
SpecFraming == FramingInit /\ [][FNext]_vars

BufferInit == TInit /\ RIdle /\ SInit /\ NIdle /\ CIdle /\ FIdle
SpecBuffer == BufferInit /\ [][TNext]_vars

(***************************************************************************)
(* Graph notions the claims are stated with, defined without the BFS.      *)
(***************************************************************************)
\* The peers at most n edges away from s.
RECURSIVE Ball(_, _, _)
Ball(graph, s, n) ==
    IF n = 0 THEN {s}
    ELSE LET b == Ball(graph, s, n - 1)
         IN  b \cup UNION {Get(graph, k, {}) : k \in b}

GraphSize(graph) == Cardinality(DOMAIN graph) + 1
Reachable(graph, s, t) == t \in Ball(graph, s, GraphSize(graph))

\* Minimum number of hops from a peer of `reached`, d hops from the start, to
\* t; -1 when t cannot be reached.
RECURSIVE Hops(_, _, _, _)
Hops(graph, reached, t, d) ==
    IF t \in reached THEN d
    ELSE LET next == reached \cup UNION {Get(graph, k, {}) : k \in reached}
         IN  IF next = reached THEN -1 ELSE Hops(graph, next, t, d + 1)

\* Minimum number of hops from s to t, for t reachable from s.
Dist(graph, s, t) == Hops(graph, {s}, t, 0)

\* The rows of the offline_messages table of n.
Held(n) ==
    {peer[n].store.offline[k] : k \in DOMAIN peer[n].store.offline}

(***************************************************************************)
(* C1.  At-most-once dispatch: at every node, the local handlers           *)
(* (handle_user_message's delivery, handle_received_alert) are invoked at  *)
(* most once for a message_id, however often and over whichever links      *)
(* records with that id arrive.                                            *)
(***************************************************************************)
Dispatched(n, i) == {k \in DOMAIN peer[n].inbox : peer[n].inbox[k].message_id = i}

C1_AtMostOnceDispatch ==
    \A n \in DOMAIN peer : \A i \in MsgIds : Cardinality(Dispatched(n, i)) <= 1

\* A node that dispatched an id has had a second record with that id arrive.
C1_Witness ==
    \E n \in DOMAIN peer : \E i \in MsgIds :
        /\ <<n, i>> \in hist.ignored
        /\ Dispatched(n, i) # {}

(***************************************************************************)
(* C2.  Broadcast coverage: a PEST_ALERT broadcast with                    *)
(* broadcast_pest_alert in a connected topology whose links are all        *)
(* complete is dispatched by handle_received_alert exactly once at every   *)
(* other node and never at the originator.  Stated of the settled network, *)
(* in which no event loop has anything left to do for the broadcast.       *)
(***************************************************************************)
AllComplete(topology) ==
    /\ \A n \in DOMAIN topology : Ball(topology, n, GraphSize(topology)) = DOMAIN topology
    /\ \A l \in DOMAIN link : link[l].used => Complete(l)

C2_BroadcastCoverage ==
    \A b \in hist.broadcast :
        (Settled /\ AllComplete(b.topology) /\ b.topology = Topology) =>
            \A n \in DOMAIN peer :
                Cardinality(Dispatched(n, b.message.message_id)) =
                    IF n = b.message.peer_id THEN 0 ELSE 1

(***************************************************************************)
(* C3.  Offline delivery, as the specification states it: a message M      *)
(* submitted with send_message at A while its target T had no route and no *)
(* connection is, when A processes a HANDSHAKE from T, queued on that      *)
(* link, and in the settled network T's handler has received a message     *)
(* with M's message_id and data.                                           *)
(***************************************************************************)
\* The handshakes from its target that a message stored by its submitter met.
C3_Cases ==
    {h \in hist.handshakes :
        /\ h.from = h.target_user_id
        /\ \E s \in hist.submitted :
            /\ s.message.message_id = h.message_id /\ s.message.data = h.data
            /\ s.message.peer_id = h.node
            /\ ~s.routed /\ ~s.connected /\ ~s.raised}

C3_Received(h) ==
    \E k \in DOMAIN peer[h.from].inbox :
        /\ peer[h.from].inbox[k].message_id = h.message_id
        /\ peer[h.from].inbox[k].data = h.data

C3_UniqueId(i) == Cardinality({s \in hist.submitted : s.message.message_id = i}) = 1

StoredIds(n) == {r.message_id : r \in Held(n)} \cup DOMAIN peer[n].store.schedule

C4_MultiHopDelivery ==
    \A s \in hist.submitted : \A topology \in {Topology} :
        LET m == s.message
            t == m.target_user_id
        IN  (/\ t \in peer[m.peer_id].known_peers
             /\ Dist(topology, m.peer_id, t) \in 1..MAX_HOPS) =>
                /\ s.ret = TRUE /\ ~s.raised
                /\ \A n \in DOMAIN peer :
                        /\ n # t => Dispatched(n, m.message_id) = {}
                        /\ Cardinality(Dispatched(n, m.message_id)) <= 1
                        /\ m.message_id \notin StoredIds(n)
                /\ Settled => Cardinality(Dispatched(t, m.message_id)) = 1

\* A message for a target MAX_HOPS hops away has arrived.
C4_Witness ==
    \E s \in hist.submitted : \E topology \in {Topology} :
        /\ Dist(topology, s.message.peer_id, s.message.target_user_id) = MAX_HOPS
        /\ Settled
        /\ Dispatched(s.message.target_user_id, s.message.message_id) # {}

(***************************************************************************)
(* C5.  Scenario S1: in the chain A - B - C, the MESSAGE that A submitted  *)
(* for C reaches C's handler with path = [A, B] and hop_count = 1.         *)
(***************************************************************************)
C5_ScenarioS1 ==
    ~link[3].used =>
        \A k \in DOMAIN peer["C"].inbox :
            LET m == peer["C"].inbox[k]
            IN  (m.peer_id = "A" /\ m.message_type = "MESSAGE") =>
                    m.path = <<"A", "B">> /\ m.hop_count = 1

(***************************************************************************)
(* C6.  BFS optimality: after update_routing_graph(known_peers), a target  *)
(* t of known_peers other than self has a routing_graph entry iff t is     *)
(* reachable from self in peer_graph, and the entry is a neighbour of self *)
(* on a minimum-hop path from self to t.                                   *)
(***************************************************************************)
C6_BFSOptimality ==
    r_ev.op = "update_routing_graph" =>
        /\ DOMAIN r_routing \subseteq r_ev.known \ {RSelf}
        /\ \A t \in r_ev.known \ {RSelf} :
            /\ t \in DOMAIN r_routing <=> Reachable(r_graph, RSelf, t)
            /\ t \in DOMAIN r_routing =>
                 /\ r_routing[t] \in Get(r_graph, RSelf, {})
                 /\ Reachable(r_graph, r_routing[t], t)
                 /\ Dist(r_graph, r_routing[t], t) = Dist(r_graph, RSelf, t) - 1

\* A table was just computed for a target two hops away that two different
\* neighbours of self reach in one hop.
C6_Witness ==
    /\ r_ev.op = "update_routing_graph"
    /\ \E t \in r_ev.known :
        /\ t \in DOMAIN r_routing
        /\ Dist(r_graph, RSelf, t) = 2
        /\ \E n1, n2 \in r_graph[RSelf] : n1 # n2 /\ t \in r_graph[n1] /\ t \in r_graph[n2]

(***************************************************************************)
(* C7.  Graph consistency on removal: right after remove_peer(x),          *)
(* peer_graph has no key x, no adjacency set contains x, and no            *)
(* routing_graph entry has x as destination or next hop.                   *)
(***************************************************************************)
C7_RemovalConsistency ==
    r_ev.op = "remove_peer" =>
        /\ r_ev.peer \notin DOMAIN r_graph
        /\ \A k \in DOMAIN r_graph : r_ev.peer \notin r_graph[k]
        /\ \A d \in DOMAIN r_routing : d # r_ev.peer /\ r_routing[d] # r_ev.peer

\* x was a key, a neighbour and a next hop before it was removed, and other
\* peers and routes remain.
C7_Witness ==
    /\ r_ev.op = "remove_peer"
    /\ r_ev.was_key /\ r_ev.was_adjacent /\ r_ev.was_next_hop
    /\ Cardinality(DOMAIN r_graph) >= 3
    /\ r_routing # EmptyMap

(***************************************************************************)
(* C8.  Scenario S4: after cleanup_connection at a node for the link of    *)
(* peer A, the node's connections and routing table have no entry for A,   *)
(* no route goes through A, and the peer_graph snapshot of every           *)
(* NETWORK_UPDATE the call queued does not mention A.                      *)
(***************************************************************************)
Mentions(graph, x) == x \in DOMAIN graph \/ \E k \in DOMAIN graph : x \in graph[k]

C8_DisconnectCleanup ==
    (n_ev.op = "cleanup_connection" /\ n_ev.peer_id # None) =>
        /\ n_ev.peer_id \notin n_ev.connections
        /\ n_ev.peer_id \notin DOMAIN n_ev.routing_graph
        /\ \A t \in DOMAIN n_ev.routing_graph : n_ev.routing_graph[t] # n_ev.peer_id
        /\ \A l \in DOMAIN n_ev.queued : \A j \in DOMAIN n_ev.queued[l] :
                /\ n_ev.queued[l][j].message_type = "NETWORK_UPDATE"
                /\ ~Mentions(n_ev.queued[l][j].data, n_ev.peer_id)

\* A node that had a route to A cleaned A's link up and told another peer.
C8_Witness ==
    /\ n_ev.op = "cleanup_connection" /\ n_ev.peer_id # None
    /\ n_ev.had_route
    /\ \E l \in DOMAIN n_ev.queued : n_ev.queued[l] # <<>>

(***************************************************************************)
(* C9.  Scenario S2: a message stored for target C is returned by          *)
(* get_pending_messages(C); and once the node has processed the HANDSHAKE  *)
(* of a peer through which it has a route to C (C itself, or a neighbour   *)
(* that advertised a path to C), the message has been forwarded and is no  *)
(* longer in the store.  Stated of the settled network.                    *)
(***************************************************************************)
C9_StoreThenForward ==
    /\ \A n \in DOMAIN peer : \A r \in Held(n) :
            r.message_id \in LiveIds(peer[n].store, now) =>
                \E m \in DOMAIN get_pending_messages(peer[n].store, r.target_user_id, now).messages :
                    get_pending_messages(peer[n].store, r.target_user_id, now).messages[m].message_id
                        = r.message_id
    /\ \A h \in hist.handshakes :
            (/\ Settled
             /\ h.live
             /\ h.from \in DOMAIN peer[h.node].connections
             /\ Get(peer[h.node].routing_graph, h.target_user_id, None) = h.from)
            => \A r \in Held(h.node) : r.message_id # h.message_id

(***************************************************************************)
(* C10.  Queue expiry: a stored message whose expiry_time is <= now is     *)
(* never returned by get_pending_messages, get_all_pending_messages or     *)
(* get_message_by_id, and after delete_expired_messages (which             *)
(* get_pending_messages runs first) no row for its message_id remains in   *)
(* the message table or in the schedule table.                             *)
(***************************************************************************)
C10_Getters == {"get_pending_messages", "get_all_pending_messages", "get_message_by_id"}
C10_Deleters == {"delete_expired_messages", "get_pending_messages", "get_message_by_id"}

C10_QueueExpiry ==
    /\ s_ev.op \in C10_Getters =>
         \A k \in 1..Len(s_ev.returned) : s_ev.returned[k].message_id \notin s_ev.expired
    /\ s_ev.op \in C10_Deleters =>
         \A i \in s_ev.expired :
            /\ \A k \in 1..Len(s_store.offline) : s_store.offline[k].message_id # i
            /\ i \notin DOMAIN s_store.schedule

(***************************************************************************)
(* C11.  Codec round trip: from_json applied to the text to_json writes    *)
(* for a Message returns a Message equal to it in all eight attributes,    *)
(* target_user_id None, any hop_count up to MAX_HOPS and any path included.*)
(***************************************************************************)
C11_CodecRoundTrip ==
    (c_pc = "from_json" /\ c_decoded[1] = "to_json") =>
        c_decoded[2] = [raised |-> FALSE, ret |-> <<c_message>>]

C11_Witness ==
    /\ c_pc = "from_json" /\ c_decoded[1] = "to_json"
    /\ c_message.target_user_id = None
    /\ c_message.hop_count = MAX_HOPS
    /\ c_message.path = <<"B", "A">>
    /\ c_decoded[2].ret = <<c_message>>

(***************************************************************************)
(* C12.  Framing tolerance: however recv splits the bytes of a stream of   *)
(* texts into chunks, after each chunk the node is in the state, and the   *)
(* inbound buffer holds the bytes, that process_message leaves when the    *)
(* bytes received so far arrive in one piece: the same messages dispatched *)
(* in the same order; the buffer holds exactly the bytes after the last    *)
(* newline received.                                                       *)
(***************************************************************************)
C12_OnePiece ==
    process_inbound(FrameSelf, Cx(FramePeer), FrameLink,
                    SubSeq(f_bytes, 1, FrameReceived), f_texts, now, order)

C12_Partial ==
    LET last == CHOOSE k \in 0..FrameReceived :
                    /\ k = 0 \/ f_bytes[k] = Newline
                    /\ \A j \in (k + 1)..FrameReceived : f_bytes[j] # Newline
    IN  SubSeq(f_bytes, last + 1, FrameReceived)

C12_FramingTolerance ==
    /\ f_peer = C12_OnePiece.cx.p
    /\ f_in = C12_OnePiece.inbound_buffer
    /\ f_in = C12_Partial

\* Two messages dispatched from three chunks, the second chunk holding the
\* end of one text and the beginning of the next.
C12_Witness ==
    /\ Len(f_chunks) = 3 /\ FrameReceived = Len(f_bytes)
    /\ f_chunks[1] < MaxTextBytes + 1
    /\ f_chunks[1] + f_chunks[2] > MaxTextBytes + 1
    /\ Len(f_peer.inbox) = 2

(***************************************************************************)
(* C13.  Hop cap: from_json returns None for exactly those records in      *)
(* flight whose hop_count is greater than MAX_HOPS; no node hands to a     *)
(* local handler or stores a message with hop_count above MAX_HOPS, none   *)
(* forwards a message it received with hop_count above MAX_HOPS (a         *)
(* forwarded record counts one hop more than the record received), and a   *)
(* message submitted for a target more than MAX_HOPS hops away is not      *)
(* dispatched there.                                                       *)
(***************************************************************************)
C13_HopCap ==
    /\ \A n \in DOMAIN peer :
        /\ \A k \in DOMAIN peer[n].inbox : peer[n].inbox[k].hop_count <= MAX_HOPS
        /\ \A r \in Held(n) : r.hop_count <= MAX_HOPS
        /\ \A l \in DOMAIN peer[n].conn : \A k \in DOMAIN peer[n].conn[l].outbound_buffer :
                Plain(peer[n].conn[l].outbound_buffer[k]).hop_count <= MAX_HOPS + 1
    /\ \A l \in DOMAIN ends : \A n \in DOMAIN chan[l] : \A k \in DOMAIN chan[l][n] :
        (from_json(chan[l][n][k], now).ret = <<>>) <=>
            (Plain(chan[l][n][k]).hop_count > MAX_HOPS)
    /\ \A s \in hist.submitted : \A topology \in {Topology} :
        (Settled /\ Dist(topology, s.message.peer_id, s.message.target_user_id) > MAX_HOPS)
            => Dispatched(s.message.target_user_id, s.message.message_id) = {}

\* A message for a target MAX_HOPS + 1 hops away went all the way and was
\* rejected there.
C13_Witness ==
    \E s \in hist.submitted : \E topology \in {Topology} :
        /\ Settled /\ s.ret = TRUE
        /\ Dist(topology, s.message.peer_id, s.message.target_user_id) = MAX_HOPS + 1
        /\ s.message.message_id \in
                peer[ChainName[MaxChainLen - 1]].seen_messages \ peer[ChainName[MaxChainLen]].seen_messages
        /\ Dispatched(s.message.target_user_id, s.message.message_id) = {}

(***************************************************************************)
(* C14.  Scenario S6, parse-error isolation: a malformed text (no JSON, a  *)
(* JSON number, a required key missing, a value of the wrong type) is      *)
(* taken from the inbound buffer and changes nothing: after each chunk the *)
(* node is in the state that handling the well-formed texts received so    *)
(* far, and only these, leaves; a well-formed MESSAGE for B that follows a *)
(* malformed text is dispatched; the connection stays open and the event   *)
(* loop keeps running.                                                     *)
(***************************************************************************)
\* The number of complete texts among the bytes received.
C14_Complete == FrameReceived \div (MaxTextBytes + 1)

\* The first n texts of the stream without the malformed ones.
RECURSIVE C14_WellFormed(_)
C14_WellFormed(n) ==
    IF n = 0 THEN <<>>
    ELSE IF f_kinds[n] \in FrameMalformed THEN C14_WellFormed(n - 1)
    ELSE Append(C14_WellFormed(n - 1), f_texts[n])

C14_ParseErrorIsolation ==
    /\ f_peer = process_message(FrameSelf, Cx(FramePeer), FrameLink,
                                C14_WellFormed(C14_Complete), now, order).p
    /\ f_peer.alive /\ f_peer.conn[FrameLink].open
    /\ ~is_message_complete(f_in)
    /\ \A r \in 2..C14_Complete :
        (f_kinds[r - 1] \in FrameMalformed /\ f_kinds[r] = "to B") =>
            \E k \in DOMAIN f_peer.inbox : f_peer.inbox[k].message_id = r

\* A malformed text and a MESSAGE for B arrived in one chunk.
C14_Witness ==
    /\ Len(f_kinds) = 2 /\ f_kinds[1] = "no data" /\ f_kinds[2] = "to B"
    /\ Len(f_chunks) = 1 /\ FrameReceived = Len(f_bytes)
    /\ Len(f_peer.inbox) = 1 /\ f_peer.inbox[1].message_id = 2
    /\ f_in = <<>>

(***************************************************************************)
(* C15.  Scenario S3: in the ring A - B - C (A connected to B and to C, B   *)
(* and C to each other) A broadcasts a PEST_ALERT; the call returns, the   *)
(* flood ends, B and C have each dispatched the alert exactly once when    *)
(* the network has settled, and every PEST_ALERT record in a buffer or on  *)
(* a link carries the message_id A gave the alert.                         *)
(***************************************************************************)
C15_ScenarioS3 ==
    \A b \in hist.broadcast :
        (/\ b.message.peer_id = "A"
         /\ b.connections = {"B", "C"}
         /\ "C" \in b.topology["B"]) =>
            /\ ~b.raised
            /\ \A l \in DOMAIN ends : \A n \in DOMAIN chan[l] :
                /\ \A k \in DOMAIN chan[l][n] :
                    Plain(chan[l][n][k]).message_type = "PEST_ALERT" =>
                        Plain(chan[l][n][k]).message_id = b.message.message_id
                /\ \A k \in DOMAIN peer[n].conn[l].outbound_buffer :
                    Plain(peer[n].conn[l].outbound_buffer[k]).message_type = "PEST_ALERT" =>
                        Plain(peer[n].conn[l].outbound_buffer[k]).message_id = b.message.message_id
            /\ Settled =>
                /\ Cardinality(Dispatched("B", b.message.message_id)) = 1
                /\ Cardinality(Dispatched("C", b.message.message_id)) = 1

(***************************************************************************)
(* C17  Back-pressure fallback: when send_message or route_message selects *)
(* a connection whose queue_message fails because the message does not fit *)
(* into the outbound buffer, the call does not report the message as sent  *)
(* and the message is written to the offline store of the sender.          *)
(***************************************************************************)
C17_BackPressureFallback ==
    \A s \in hist.submitted :
        (s.selected # 0 /\ ~s.queued) =>
            /\ s.ret # TRUE
            /\ ~s.raised
            /\ s.message.message_id \in StoredIds(s.message.peer_id)

(***************************************************************************)
(* C18  Delete-after-send: a message get_pending_messages has returned and *)
(* for which no send has been made yet is still in the offline store when  *)
(* the call is over.                                                       *)
(***************************************************************************)
C18_DeleteAfterSend ==
    s_ev.op = "get_pending_messages" =>
        \A k \in 1..Len(s_ev.returned) :
            \E j \in 1..Len(s_store.offline) :
                s_store.offline[j].message_id = s_ev.returned[k].message_id

(***************************************************************************)
(* C19  Idempotent store: every call of store_offline_message completes    *)
(* without error, a call for a message_id stored before (and deleted or    *)
(* drained since, or not) included, and leaves exactly one pending entry   *)
(* for that message_id.                                                    *)
(***************************************************************************)
C19_IdempotentStore ==
    s_ev.op = "store" =>
        /\ s_ev.ok
        /\ Cardinality({j \in 1..Len(s_store.offline) :
                            s_store.offline[j].message_id = s_ev.id}) = 1

(***************************************************************************)
(* C16  Outbound buffer bound: in every reachable state the outbound       *)
(* buffer of a connection holds at most MAX_BUFFER_SIZE bytes, and a call  *)
(* of queue_message that returns False has left the buffer as it was.      *)
(***************************************************************************)
C16_OutboundBufferBound ==
    /\ Len(t_out) * BlockBytes <= MAX_BUFFER_SIZE
    /\ (t_ev.op = "queue_message" /\ ~t_ev.ret) => t_out = t_ev.before

(***************************************************************************)
(* C20  Thread-safe submission: when the application thread calls          *)
(* queue_message while the loop thread runs send_buffered_data on the same *)
(* connection, then, the calls over, every byte a successful queue_message *)
(* took is, once and in order, among the bytes sent followed by the bytes  *)
(* still in the buffer: none is lost and none is sent again.               *)
(***************************************************************************)
C20_ThreadSafeSubmission ==
    (/\ t_calls["loop"] = 0
     /\ \A th \in Threads : t_loc[th].pc = "idle") =>
        t_wire \o t_out = t_accepted

(***************************************************************************)
(* C21  Per-link FIFO: the texts queue_message put on a connection one     *)
(* after the other reach the handlers of the receiving node in that order, *)
(* however recv splits the bytes: after each chunk the inbox holds the     *)
(* messages for the node, and the offline store the messages for others,   *)
(* of the complete texts received, each in the order of the stream (a text *)
(* from_json rejects, or whose message_id an earlier text had, reaches no  *)
(* handler).                                                               *)
(***************************************************************************)
C21_Id(r) == IF f_kinds[r] = "to B again" THEN 1 ELSE r
C21_Good(r) == f_kinds[r] \in {"to B", "to B again", "to C"}
C21_Handled(r) ==
    /\ C21_Good(r)
    /\ \A q \in 1..(r - 1) : C21_Good(q) => C21_Id(q) # C21_Id(r)

\* The ids of the texts among the first n of the stream that reach the
\* handler of the messages for `target`, in the order of the stream.
RECURSIVE C21_InOrder(_, _)
C21_InOrder(n, target) ==
    IF n = 0 THEN <<>>
    ELSE IF C21_Handled(n) /\ (f_kinds[n] = "to C") = (target = "C")
    THEN Append(C21_InOrder(n - 1, target), C21_Id(n))
    ELSE C21_InOrder(n - 1, target)

C21_PerLinkFIFO ==
    /\ [k \in 1..Len(f_peer.inbox) |-> f_peer.inbox[k].message_id]
            = C21_InOrder(C14_Complete, "B")
    /\ [k \in 1..Len(f_peer.store.offline) |-> f_peer.store.offline[k].message_id]
            = C21_InOrder(C14_Complete, "C")

\* Two messages for B whose texts arrived in one chunk are in the inbox in
\* the order they were queued.
C21_Witness ==
    /\ Len(f_kinds) = 2 /\ Len(f_chunks) = 1 /\ FrameReceived = Len(f_bytes)
    /\ Len(f_peer.inbox) = 2
    /\ f_peer.inbox[1].message_id = 1 /\ f_peer.inbox[2].message_id = 2

(***************************************************************************)
(* C22  Handshake completion on both ends: once the traffic is over, every *)
(* link connect_to_peer has created and neither end has closed is bound at *)
(* both ends to the peer_id of the other end and marked complete there,    *)
(* also when the responder knew the initiator before the link was made.    *)
(***************************************************************************)
C22_HandshakeCompletion ==
    \A l \in DOMAIN ends :
        (/\ Settled
         /\ link[l].used /\ link[l].closed = {}
         /\ \A n \in DOMAIN chan[l] : peer[n].alive /\ peer[n].running) =>
            \A n \in DOMAIN chan[l] :
                /\ peer[n].conn[l].is_handshake_complete
                /\ peer[n].conn[l].peer_id = OtherEnd(l, n)

(***************************************************************************)
(* C23  No handshake ping-pong: on every link only finitely many HANDSHAKE *)
(* messages are ever sent, three at most (the initiator's, the responder's *)
(* answer, and the initiator's answer to that), two at most by one end,    *)
(* one at most in flight in each direction; an end sends one after the     *)
(* first only in the step in which it handles a HANDSHAKE of an end it did *)
(* not know, so that none is sent once those in flight are handled.        *)
(***************************************************************************)
\* The HANDSHAKE records on their way to n on link l.
C23_InFlight(l, n) ==
    {k \in DOMAIN chan[l][n] : Plain(chan[l][n][k]).message_type = "HANDSHAKE"}

C23_Bounded ==
    \A l \in DOMAIN ends :
        /\ Cardinality(Hello(hist.hello, l, Initiator(l))) <= 2
        /\ Cardinality(Hello(hist.hello, l, Responder(l))) <= 1
        /\ \A n \in DOMAIN chan[l] :
            /\ Cardinality(C23_InFlight(l, n)) <= 1
            /\ \A k \in DOMAIN peer[n].conn[l].outbound_buffer :
                    Plain(peer[n].conn[l].outbound_buffer[k]).message_type = "HANDSHAKE" =>
                        C23_InFlight(l, OtherEnd(l, n)) = {}

\* On a link in use an end queues a HANDSHAKE only in the step that handles
\* one, and then only if it did not know the other end.
C23_OnlyInAnswer ==
    \A l \in DOMAIN ends : \A n \in DOMAIN chan[l] :
        (link[l].used /\ Hello(hist'.hello, l, n) # Hello(hist.hello, l, n)) =>
            /\ C23_InFlight(l, n) # {}
            /\ C23_InFlight(l, n) # {k \in DOMAIN chan'[l][n] :
                                        Plain(chan'[l][n][k]).message_type = "HANDSHAKE"}
            /\ OtherEnd(l, n) \notin peer[n].known_peers
            /\ OtherEnd(l, n) \in peer'[n].known_peers

C23_NoPingPong == []C23_Bounded /\ [][C23_OnlyInAnswer]_vars

\* A link on which three HANDSHAKE messages were sent and all were handled.
C23_Witness ==
    \E l \in DOMAIN ends :
        /\ Settled
        /\ Cardinality(Hello(hist.hello, l, Initiator(l))) = 2
        /\ Cardinality(Hello(hist.hello, l, Responder(l))) = 1
        /\ Complete(l)

(***************************************************************************)
(* C24  Routing-table freshness: whenever no handler is running, the       *)
(* routing_graph of a node is what update_routing_graph computes from its  *)
(* known_peers and peer_graph; its keys are known peers other than the     *)
(* node itself, and a known peer has an entry exactly if the peer_graph    *)
(* holds a path to it, the entry being a neighbour on a shortest path.     *)
(***************************************************************************)
C24_RoutingFreshness ==
    \A n \in DOMAIN peer : \A p \in {peer[n]} :
        /\ p.routing_graph = update_routing_graph(n, p.peer_graph, p.known_peers, order)
        /\ DOMAIN p.routing_graph \subseteq p.known_peers \ {n}
        /\ \A t \in p.known_peers \ {n} :
            /\ t \in DOMAIN p.routing_graph <=> Dist(p.peer_graph, n, t) >= 1
            /\ t \in DOMAIN p.routing_graph =>
                    /\ p.routing_graph[t] \in Get(p.peer_graph, n, {})
                    /\ Dist(p.peer_graph, p.routing_graph[t], t) = Dist(p.peer_graph, n, t) - 1

\* After a peer has left, a node has recomputed its table: it keeps a route
\* to one peer and has no entry for the peer it knows and cannot reach.
C24_Witness ==
    \E n \in DOMAIN peer :
        /\ n_ev.op = "cleanup_connection" /\ n_ev.node = n
        /\ DOMAIN peer[n].routing_graph # {}
        /\ \E t \in peer[n].known_peers \ {n} :
            /\ t \notin DOMAIN peer[n].routing_graph
            /\ Dist(peer[n].peer_graph, n, t) = -1

(***************************************************************************)
(* C25  Transitive peer discovery: when every link made has completed its  *)
(* handshake at both ends and all gossip has been handled, every node      *)
(* knows every other node of its component of the topology the links form  *)
(* and has a routing entry for it, whose next hop is a connected neighbour *)
(* one hop nearer to it.                                                   *)
(***************************************************************************)
C25_TransitiveDiscovery ==
    \A topology \in {Topology} :
        (Settled /\ \A l \in DOMAIN ends : link[l].used => Complete(l)) =>
            \A n \in DOMAIN peer : \A m \in DOMAIN peer \ {n} :
                Dist(topology, n, m) >= 1 =>
                    /\ m \in peer[n].known_peers
                    /\ m \in DOMAIN peer[n].routing_graph
                    /\ peer[n].routing_graph[m] \in DOMAIN peer[n].connections
                    /\ Dist(topology, peer[n].routing_graph[m], m) = Dist(topology, n, m) - 1

\* The whole line is up and settled: the peers at its ends, three hops
\* apart, know each other.
C25_Witness ==
    /\ Settled
    /\ \A l \in DOMAIN ends : Complete(l)
    /\ ChainName[MaxLineLen] \in peer["A"].known_peers
    /\ peer[ChainName[MaxLineLen]].routing_graph["A"] = ChainName[MaxLineLen - 1]

(***************************************************************************)
(* C26  Split horizon: a node that reads a NETWORK_UPDATE on a link merges *)
(* the graph received; if the merge changed its peer_graph it queues one   *)
(* NETWORK_UPDATE with the merged graph on every complete connection but   *)
(* the one the update came from, and nothing else; if the merge changed    *)
(* nothing, nothing is queued and the state of the node stays as it was.   *)
(***************************************************************************)
C26_IsUpdate(json_str, from, graph) ==
    /\ Plain(json_str).message_type = "NETWORK_UPDATE"
    /\ Plain(json_str).peer_id = from
    /\ Plain(json_str).data = graph

\* The step in which n reads the NETWORK_UPDATE at the head of link l, whose
\* other end keeps its socket open: the write phase of the same call of
\* service_connection puts on the wire what the buffer of l held.
C26_Step(n, l) ==
    LET before == peer[n]
        after == peer'[n]
        merged == MergeGraph(before.peer_graph, Plain(Head(chan[l][n])).data)
        others == {before.connections[q] : q \in CompletePeers(before)} \ {l}
    IN  /\ after.peer_graph = merged
        /\ chan'[l][OtherEnd(l, n)] = chan[l][OtherEnd(l, n)] \o before.conn[l].outbound_buffer
        /\ after.conn[l].outbound_buffer = <<>>
        /\ \A k \in DOMAIN before.conn \ {l} :
            IF k \in others /\ merged # before.peer_graph
            THEN /\ Len(after.conn[k].outbound_buffer) = Len(before.conn[k].outbound_buffer) + 1
                 /\ SubSeq(after.conn[k].outbound_buffer, 1, Len(before.conn[k].outbound_buffer))
                        = before.conn[k].outbound_buffer
                 /\ C26_IsUpdate(after.conn[k].outbound_buffer[Len(after.conn[k].outbound_buffer)],
                                 n, merged)
            ELSE after.conn[k] = before.conn[k]
        /\ merged = before.peer_graph =>
                after = [before EXCEPT !.conn[l].outbound_buffer = <<>>]

C26_SplitHorizonStep ==
    \A l \in DOMAIN ends : \A n \in DOMAIN chan[l] :
        (/\ chan[l][n] # <<>>
         /\ chan'[l][n] = Tail(chan[l][n])
         /\ OtherEnd(l, n) \notin link[l].closed
         /\ Plain(Head(chan[l][n])).message_type = "NETWORK_UPDATE") => C26_Step(n, l)

C27_SelfExclusion ==
    \A n \in DOMAIN peer :
        /\ n \notin peer[n].known_peers
        /\ n \notin DOMAIN peer[n].routing_graph


\* C28: claimed - when a read or a write on a connection reports would-block
\* the connection is kept: it is not cleaned up, its peer stays in
\* connections and in the router, and what was to be sent stays in the
\* buffer for a later iteration of the loop.
C28_Kept(n, l) ==
    /\ peer'[n].conn[l].open
    /\ peer'[n].conn[l] = peer[n].conn[l]
    /\ peer'[n].connections = peer[n].connections
    /\ peer'[n].peer_graph = peer[n].peer_graph
    /\ peer'[n].routing_graph = peer[n].routing_graph

C28_Step ==
    \A l \in DOMAIN ends : \A n \in DOMAIN chan[l] :
        (RecvWouldBlock(n, l) \/ SendWouldBlock(n, l)) => C28_Kept(n, l)

C28_WouldBlockKeeps == [][C28_Step]_vars

\* The half of C28 about writes.
C28_SendStep ==
    \A l \in DOMAIN ends : \A n \in DOMAIN chan[l] : SendWouldBlock(n, l) => C28_Kept(n, l)

C28_SendKeeps == [][C28_SendStep]_vars


\* C29: claimed - from_json returns None for every record in which any of the
\* eight keys peer_id, target_user_id, message_type, data, time_stamp,
\* message_id, hop_count, path is missing or has the wrong type.
C29_Missing ==
    {"no peer_id", "no target_user_id", "no message_type", "no data", "no time_stamp",
     "no message_id", "no hop_count", "no path"}
C29_WrongType ==
    {"int peer_id", "int target_user_id", "int message_type", "list data", "str time_stamp",
     "int message_id", "str hop_count", "dict path"}

C29_RequiredFields ==
    (c_pc = "from_json" /\ c_decoded[1] \in C29_Missing \cup C29_WrongType) =>
        c_decoded[2] = [raised |-> FALSE, ret |-> <<>>]

\* What holds of C29: the six keys of required_fields, and the types of all
\* eight.
C29_SixRequired ==
    (c_pc = "from_json" /\ c_decoded[1] \in (C29_Missing \ {"no hop_count", "no path"})
                                                \cup C29_WrongType) =>
        c_decoded[2] = [raised |-> FALSE, ret |-> <<>>]

\* A record without hop_count, or without path, is decoded with the default.
C29_Defaults ==
    (c_pc = "from_json" /\ c_decoded[1] \in {"no hop_count", "no path"}) =>
        /\ c_decoded[2].ret # <<>>
        /\ c_decoded[1] = "no hop_count" =>
                c_decoded[2].ret[1] = [c_message EXCEPT !.hop_count = 0]
        /\ c_decoded[1] = "no path" =>
                c_decoded[2].ret[1] = [c_message EXCEPT !.path = <<c_message.peer_id>>]


\* C30: claimed - every message a node accepts from decode (and every message
\* it queues on a link) has a non-empty path whose first element is the
\* message's peer_id.
C30_WellFormed(message) ==
    /\ message.path # <<>>
    /\ message.path[1] = message.peer_id

C30_PathWellFormed ==
    (c_pc = "from_json" /\ c_decoded[2].ret # <<>>) => C30_WellFormed(c_decoded[2].ret[1])

\* What holds of C30: among peers that all run this program, every record in
\* an outbound buffer or in flight is well formed, and a record with the id
\* of a submitted message carries the peer_id of the peer that submitted it.
C30_Queued ==
    \A l \in DOMAIN ends : \A n \in DOMAIN chan[l] :
        /\ \A k \in DOMAIN chan[l][n] :
            /\ C30_WellFormed(Plain(chan[l][n][k]))
            /\ \A h \in hist.submitted :
                h.message.message_id = Plain(chan[l][n][k]).message_id =>
                    h.message.peer_id = Plain(chan[l][n][k]).peer_id
        /\ \A k \in DOMAIN peer[n].conn[l].outbound_buffer :
            C30_WellFormed(Plain(peer[n].conn[l].outbound_buffer[k]))


(***************************************************************************)
(* C31.  No forward-back: a node that reads a PEST_ALERT it has to forward *)
(* (not seen before, hop_count below ALERT_HOP_LIMIT) forwards it: its     *)
(* event loop goes on, every copy it queues is queued for a peer that is   *)
(* not on the path of the received record, and carries the received        *)
(* message_id, the received path with the forwarder appended and the       *)
(* received hop_count plus one.                                            *)
(***************************************************************************)
\* n reads from link l a PEST_ALERT that handle_received_alert forwards.
C31_Forwards(n, l) ==
    /\ ServiceRead(n, l)
    /\ from_json(Head(chan[l][n]), now).ret # <<>>
    /\ Plain(Head(chan[l][n])).message_type = "PEST_ALERT"
    /\ Plain(Head(chan[l][n])).message_id \notin peer[n].seen_messages
    /\ Plain(Head(chan[l][n])).hop_count < ALERT_HOP_LIMIT

C31_Copies(n, l) ==
    LET received == Plain(Head(chan[l][n]))
        on_path == {received.path[i] : i \in DOMAIN received.path}
    IN  \A k \in DOMAIN peer[n].conn \ {l} :
            \A j \in DOMAIN Queued(peer[n], peer'[n])[k] :
                LET copy == Queued(peer[n], peer'[n])[k][j]
                IN  copy.message_type = "PEST_ALERT" =>
                        /\ \A q \in on_path :
                                ~(q \in DOMAIN peer[n].connections /\ peer[n].connections[q] = k)
                        /\ copy.message_id = received.message_id
                        /\ copy.path = Append(received.path, n)
                        /\ copy.hop_count = received.hop_count + 1

C31_Step ==
    \A l \in DOMAIN ends : \A n \in DOMAIN chan[l] :
        C31_Forwards(n, l) => (peer'[n].alive /\ C31_Copies(n, l))

C31_CopiesStep ==
    \A l \in DOMAIN ends : \A n \in DOMAIN chan[l] : C31_Forwards(n, l) => C31_Copies(n, l)

C31_NoBadCopy == [][C31_CopiesStep]_vars


(***************************************************************************)
(* C32.  Deterministic tie-break: the table update_routing_graph computes  *)
(* is a function of the router's id, known_peers and the edges of          *)
(* peer_graph: whatever order the neighbour sets are iterated in, it is    *)
(* the table computed with the neighbours taken in PeerId order, the next  *)
(* hop being the smallest among the first hops of the shortest paths.      *)
(***************************************************************************)
C32_PeerIdOrder == <<"A", "B", "C", "D">>

\* The neighbours of self that begin a shortest path to t.
C32_FirstHops(t) ==
    {h \in Get(r_graph, RSelf, {}) :
        /\ Reachable(r_graph, h, t)
        /\ Dist(r_graph, h, t) = Dist(r_graph, RSelf, t) - 1}

C32_DeterministicTieBreak ==
    r_ev.op = "update_routing_graph" =>
        /\ r_routing = update_routing_graph(RSelf, r_graph, r_ev.known, C32_PeerIdOrder)
        /\ \A t \in DOMAIN r_routing :
            \A h \in C32_FirstHops(t) :
                \E i, j \in DOMAIN C32_PeerIdOrder :
                    /\ C32_PeerIdOrder[i] = r_routing[t]
                    /\ C32_PeerIdOrder[j] = h
                    /\ i <= j


(***************************************************************************)
(* C33.  Next hops are live neighbours: in every reachable state every     *)
(* next hop of a node's routing table is a key of the node's connections   *)
(* whose connection is open and has completed the handshake.               *)
(***************************************************************************)
C33_LiveHop(n, h) ==
    /\ h \in DOMAIN peer[n].connections
    /\ peer[n].conn[peer[n].connections[h]].open
    /\ peer[n].conn[peer[n].connections[h]].is_handshake_complete

C33_NextHopsLive ==
    \A n \in DOMAIN peer :
        peer[n].alive =>
            \A t \in DOMAIN peer[n].routing_graph : C33_LiveHop(n, peer[n].routing_graph[t])


(***************************************************************************)
(* C34.  Removal is not undone by gossip: once node n has cleaned up its   *)
(* link to a peer x that has stopped (no HANDSHAKE from x can follow and   *)
(* no link to x exists any more), x is no key of n's peer_graph, no        *)
(* neighbour in it and no destination of n's routing table, whatever       *)
(* NETWORK_UPDATE n reads from the other peers.                            *)
(***************************************************************************)
\* n has run cleanup_connection for its connection to x on link l.
C34_CleanedUp(n, x, l) ==
    /\ l \in LinksOf(n) /\ OtherEnd(l, n) = x
    /\ link[l].used
    /\ peer[n].conn[l].peer_id = x
    /\ peer[n].running /\ ~peer[n].conn[l].open

C34_Gone(n, x) ==
    /\ ~Mentions(peer[n].peer_graph, x)
    /\ x \notin DOMAIN peer[n].routing_graph

C34_RemovalStays ==
    \A n, x \in DOMAIN peer : \A l \in DOMAIN ends :
        (C34_CleanedUp(n, x, l) /\ ~peer[x].running) => C34_Gone(n, x)


(***************************************************************************)
(* C35.  Parallel links: while a node holds an open connection to peer p   *)
(* with a complete handshake, on a link its other end keeps open, p is a   *)
(* key of the node's connections, bound to such a connection, and p is in  *)
(* the router; the close of another link to p does not remove it.          *)
(***************************************************************************)
\* The links on which n holds a live complete connection to p.
C35_LiveLinks(n, p) ==
    {l \in LinksOf(n) :
        /\ OtherEnd(l, n) = p
        /\ link[l].used /\ link[l].closed = {}
        /\ peer[n].conn[l].open
        /\ peer[n].conn[l].is_handshake_complete
        /\ peer[n].conn[l].peer_id = p}

C35_ParallelLinks ==
    \A n, p \in DOMAIN peer :
        (peer[n].alive /\ C35_LiveLinks(n, p) # {}) =>
            /\ p \in DOMAIN peer[n].connections
            /\ peer[n].connections[p] \in C35_LiveLinks(n, p)
            /\ p \in DOMAIN peer[n].peer_graph
            /\ n \in DOMAIN peer[n].peer_graph /\ p \in peer[n].peer_graph[n]


(***************************************************************************)
(* C36.  Loop survives a close: when the read phase of service_connection  *)
(* cleans a connection up after a zero-byte read, the call ends without a  *)
(* write on the closed socket, whatever the outbound buffer holds: the     *)
(* event loop of the node keeps running.                                   *)
(***************************************************************************)
C36_Step ==
    \A l \in DOMAIN ends : \A n \in DOMAIN chan[l] :
        ServiceEOF(n, l) => peer'[n].alive

C36_LoopSurvives == [][C36_Step]_vars

\* What holds of C36: the loop survives a close met with an empty buffer.
C36_EmptyStep ==
    \A l \in DOMAIN ends : \A n \in DOMAIN chan[l] :
        (ServiceEOF(n, l) /\ peer[n].conn[l].outbound_buffer = <<>>) => peer'[n].alive

C36_EmptyBufferSurvives == [][C36_EmptyStep]_vars


(***************************************************************************)
(* C37.  Gossip quiescence: when the event loops keep running and the      *)
(* connects come to an end, the gossip comes to an end: from some moment   *)
(* on every outbound buffer is empty, nothing is in flight and no handler  *)
(* queues anything.                                                        *)
(***************************************************************************)
C37_GossipQuiescence == <>[]Settled

\* The whole line is connected, every peer has learned of every other from
\* the gossip, and the network is quiet.
C37_Witness ==
    /\ Settled
    /\ \A l \in DOMAIN ends : Complete(l)
    /\ \A n \in DOMAIN peer : peer[n].known_peers = DOMAIN peer \ {n}
    /\ \A n \in DOMAIN peer : peer[n].peer_graph = Topology


(***************************************************************************)
(* C38.  Peer-graph symmetry: in every reachable state of a router, b is   *)
(* in peer_graph[a] if and only if a is in peer_graph[b] (a peer that is   *)
(* no key has no neighbours); the merge of a received graph keeps this     *)
(* also when the received graph lists an edge on one side only.            *)
(***************************************************************************)
C38_Symmetric(graph) ==
    \A a, b \in PeerId : (b \in Get(graph, a, {})) <=> (a \in Get(graph, b, {}))

\* Received graphs that list one edge on one side only.
C38_OneSided == {[k \in {a} |-> {b}] : a, b \in PeerId}

C38_PeerGraphSymmetry ==
    /\ C38_Symmetric(r_graph)
    /\ \A g \in C38_OneSided : C38_Symmetric(MergeGraph(r_graph, g))

\* remove_peer has just removed a peer that was a key and a neighbour, from
\* a graph built by update_peer_graph and merges, and edges remain.
C38_Witness ==
    /\ r_ev.op = "remove_peer"
    /\ r_ev.was_key /\ r_ev.was_adjacent
    /\ \E a \in DOMAIN r_graph : a # RSelf /\ r_graph[a] \ {RSelf} # {}
    /\ RSelf \in DOMAIN r_graph /\ r_graph[RSelf] # {}

\* The same of the peer_graph of every node of a network.
C38_NodesSymmetric == \A n \in DOMAIN peer : C38_Symmetric(peer[n].peer_graph)

(***************************************************************************)
(* C39.  Hop accounting: every message a node created and every copy a     *)
(* node forwarded (stored, restored from the offline store, queued on a    *)
(* connection, in flight, handed to a handler, or built by _forward_alert) *)
(* has hop_count = len(path) - 1, and a forwarding step (send_message,     *)
(* route_message, _forward_alert) adds exactly one to hop_count and        *)
(* appends exactly one PeerId, the forwarder's, to path.                   *)
(***************************************************************************)
C39_Counted(r) == r.hop_count = Len(r.path) - 1

\* The records node n has queued on link k.
C39_Queued(p, n, k) ==
    IF k \in DOMAIN p[n].conn
    THEN {Plain(p[n].conn[k].outbound_buffer[j]) : j \in DOMAIN p[n].conn[k].outbound_buffer}
    ELSE {}

\* r is one forwarding step of node n away from q.
C39_OneHop(q, r, n) ==
    /\ r.message_id = q.message_id
    /\ r.hop_count = q.hop_count + 1
    /\ r.path = Append(q.path, n)

C39_Everywhere ==
    /\ \A n \in DOMAIN peer :
        /\ \A k \in DOMAIN peer[n].inbox :
            /\ C39_Counted(peer[n].inbox[k])
            /\ \A q \in DOMAIN peer \ {n} :
                LET copy == forwarded_msg(n, peer[n].inbox[k], q, now)
                IN  C39_Counted(copy) /\ C39_OneHop(peer[n].inbox[k], copy, n)
        /\ \A r \in Held(n) : C39_Counted(r)
        /\ \A l \in DOMAIN peer[n].conn : \A r \in C39_Queued(peer, n, l) :
            C39_Counted(r) /\ r.path[Len(r.path)] = n
    /\ \A l \in DOMAIN ends : \A n \in DOMAIN chan[l] : \A k \in DOMAIN chan[l][n] :
        /\ C39_Counted(Plain(chan[l][n][k]))
        /\ Plain(chan[l][n][k]).path[Len(Plain(chan[l][n][k]).path)] = OtherEnd(l, n)

\* Every user message or alert a node newly queues is one hop away from the
\* message just created, from a record it received, or from a stored row.
C39_Step ==
    \A n \in DOMAIN peer : \A k \in DOMAIN ends :
        \A r \in C39_Queued(peer', n, k) \ C39_Queued(peer, n, k) :
            r.message_type \in {"MESSAGE", "PEST_ALERT"} =>
                \/ r.hop_count = 1 /\ r.path = <<n, n>>
                \/ \E l \in DOMAIN ends :
                        /\ n \in DOMAIN chan[l]
                        /\ \E j \in DOMAIN chan[l][n] :
                                C39_OneHop(Plain(chan[l][n][j]), r, n)
                \/ \E q \in Held(n) : C39_OneHop(q, r, n)

C39_HopAccounting == []C39_Everywhere /\ [][C39_Step]_vars

\* A copy restored from the offline store and a relayed copy have both been
\* forwarded: a record two hops from its creation is in an inbox, and a
\* handshake has queued stored rows.
C39_Witness ==
    /\ \E n \in DOMAIN peer : \E k \in DOMAIN peer[n].inbox :
            peer[n].inbox[k].hop_count >= 2
    /\ \E h \in hist.handshakes : h.queued

====
